---- MODULE Spec2Model ----
(***************************************************************************)
(* Beacon: outbox + executor, task / contract / accord state machines,     *)
(* rules engine, inbox read tracking.                                      *)
(*                                                                         *)
(* Every component keeps its state in files of the agent's data directory; *)
(* the variables below are those files (and, for ContractManager, the      *)
(* in-memory copies it holds).  Each component has its own next-state      *)
(* relation and specification; a component's actions leave the other       *)
(* components' variables unchanged.                                        *)
(***************************************************************************)
EXTENDS Integers, Sequences, FiniteSets, TLC

VARIABLES
    now,              \* int(time.time()), seconds
    outbox_pending,   \* outbox_pending.json : action_id -> item
    outbox_log,       \* outbox.jsonl : the action ids appended by queue, in order
    blocked,          \* TrustManager._blocked (keys of blocked.json)
    interactions,     \* interactions.jsonl, written by TrustManager.record
    contacts,         \* matches.jsonl : the agents of MatchManager.record_contact
    conversations,    \* ConversationManager._conversations : id -> messages
    cfg,              \* ActionExecutor._cfg and the roster it was wired with
    tasks_log,        \* tasks.jsonl
    task_op,          \* last TaskManager call and how it returned
    contracts,        \* ContractManager._contracts
    escrow,           \* ContractManager._escrow
    contracts_json,   \* contracts.json
    escrow_json,      \* escrow.json
    contract_log,     \* contract_log.jsonl
    contract_op,      \* last ContractManager call and how it returned
    accords,          \* accords.json
    accord_log,       \* accord_log.jsonl
    accord_op,        \* last AccordManager call and how it returned
    rules,            \* RulesEngine._rules (rules.json)
    cooldowns,        \* RulesEngine._cooldowns : cooldown key -> last fire time
    rules_log,        \* rules_log.jsonl
    rule_op,          \* last RulesEngine.process call and the results it returned
    fired_at,         \* history: <<rule name, agent id>> -> time process last reported it
    inbox,            \* inbox.jsonl : the received envelopes
    read_nonces,      \* state.json "read_nonces"
    marked,           \* history: the nonces passed to mark_read, oldest first
    known_keys,       \* known_keys.json : agent_id -> public key
    keys_op,          \* the last operation on known_keys.json
    roster,           \* PresenceManager._roster (roster.json)
    heartbeats,       \* heartbeats.json : own beat and the peers' beats
    hb_build,         \* a build_heartbeat call in progress: the state it loaded
    hb_proc,          \* a process_heartbeat call in progress: envelope and loaded state
    emitted,          \* history: the beat_count of each heartbeat built, in order
    heartbeat_log,    \* heartbeat_log.jsonl
    cities,           \* AtlasManager._atlas["cities"] (atlas.json)
    properties,       \* AtlasManager._properties (properties.json)
    population,       \* AtlasManager._atlas["population"] (atlas.json)
    ob_calls,         \* the outbox calls in progress, per thread: what each has read
    goals,            \* GoalManager._goals
    goals_jsonl,      \* goals.jsonl
    goal_op,          \* the last GoalManager call and what it returned
    ledger,           \* the commitments the ledger holds
    anchors_jsonl,    \* anchors.jsonl
    anchor_op         \* the last AnchorManager call and how it ended

vars == <<now, outbox_pending, outbox_log, blocked, interactions, contacts, conversations, cfg,
          tasks_log, task_op,
          contracts, escrow, contracts_json, escrow_json, contract_log, contract_op,
          accords, accord_log, accord_op,
          rules, cooldowns, rules_log, rule_op, fired_at,
          inbox, read_nonces, marked, known_keys, keys_op,
          roster, heartbeats, hb_build, hb_proc, emitted, heartbeat_log,
          cities, properties, population,
          ob_calls, goals, goals_jsonl, goal_op, ledger, anchors_jsonl, anchor_op>>

outbox_vars == <<outbox_pending, outbox_log, blocked, interactions, contacts, conversations, cfg>>
task_vars == <<tasks_log, task_op>>
contract_vars == <<contracts, escrow, contracts_json, escrow_json, contract_log, contract_op>>
accord_vars == <<accords, accord_log, accord_op>>
rules_vars == <<rules, cooldowns, rules_log, rule_op, fired_at>>
inbox_vars == <<inbox, read_nonces, marked>>
keys_vars == <<known_keys, keys_op>>
presence_vars == <<roster>>
heartbeat_vars == <<heartbeats, hb_build, hb_proc, emitted, heartbeat_log>>
atlas_vars == <<cities, properties, population>>
race_vars == <<ob_calls>>
goal_vars == <<goals, goals_jsonl, goal_op>>
anchor_vars == <<ledger, anchors_jsonl, anchor_op>>

(***************************************************************************)
(* Bounds of the model.                                                    *)
(***************************************************************************)
MaxTime == 1            \* the clock runs 0..MaxTime
MaxAttempts == 3        \* direct mark_retry calls stop at this attempts count
MaxActions == 2         \* largest max_actions handed to drain

Min(a, b) == IF a < b THEN a ELSE b

EmptyMap == [x \in {} |-> 0]

Put(m, k, v) == [x \in DOMAIN m \cup {k} |-> IF x = k THEN v ELSE m[x]]

Tick ==
    /\ now < MaxTime
    /\ now' = now + 1
    /\ UNCHANGED <<race_vars, goal_vars, anchor_vars, keys_vars, presence_vars, heartbeat_vars, atlas_vars, rules_vars, inbox_vars, outbox_vars, task_vars, contract_vars, accord_vars>>

(***************************************************************************)
(* Outbox (outbox.py) and executor (executor.py).                          *)
(*                                                                         *)
(* action_id is secrets.token_hex(6); the pending index is written with    *)
(* sort_keys=True, so reading it back yields the items in action_id order. *)
(* Action ids are modelled as integers in that order.  outbox.jsonl is an  *)
(* audit log that queue and drain never read back; of it only the lines    *)
(* that queue appends are kept, as the ids in the order they were queued.  *)
(***************************************************************************)
MAX_RETRY_ATTEMPTS == 3

\* the event handlers queue, the scheduler drains
Threads == {"handler", "scheduler"}

ActionIds == {1, 2}
Agents == {"bcn_a"}
Targets == {"", "bcn_a"}
Hints == {""}
ConversationIds == {"", "conv_1"}

\* cfg["udp"]["enabled"] and the agents whose roster entry carries a card_url
Configs == { [udp_enabled |-> TRUE,  cards |-> {}],
             [udp_enabled |-> FALSE, cards |-> {"bcn_a"}] }

\* OutboxManager.pending: status pending and attempts below the maximum,
\* sorted by created_at (stable over the index's action_id order)
\* (mutant) the status of an item is not looked at
Eligible_any_status(p) ==
    {id \in DOMAIN p : p[id].attempts < MAX_RETRY_ATTEMPTS}

Eligible(p) ==
    {id \in DOMAIN p : p[id].status = "pending" /\ p[id].attempts < MAX_RETRY_ATTEMPTS}

Before(p, i, j) ==
    \/ p[i].created_at < p[j].created_at
    \/ p[i].created_at = p[j].created_at /\ i < j

RECURSIVE SortedIds(_, _)
SortedIds(p, S) ==
    IF S = {} THEN <<>>
    ELSE LET m == CHOOSE i \in S : \A j \in S \ {i} : Before(p, i, j)
         IN <<m>> \o SortedIds(p, S \ {m})

pending(p, limit) ==
    LET all == SortedIds(p, Eligible(p))
    IN SubSeq(all, 1, Min(limit, Len(all)))

_update_status(p, id, status, ts) ==
    IF id \in DOMAIN p
    THEN [p EXCEPT ![id].status = status, ![id].updated_at = ts]
    ELSE p

mark_sent(p, id, ts) == _update_status(p, id, "sent", ts)

mark_delivered(p, id, ts) == _update_status(p, id, "delivered", ts)

mark_failed(p, id, error, ts) ==
    IF id \in DOMAIN p
    THEN [p EXCEPT ![id].status = "failed",
                   ![id].updated_at = ts,
                   ![id].error = IF error # "" THEN error ELSE @]
    ELSE p

\* (mutant) the comparison with the maximum is off by one
mark_retry_off_by_one(p, id, ts) ==
    IF id \in DOMAIN p
    THEN LET n == p[id].attempts + 1
         IN [p EXCEPT ![id].attempts = n,
                      ![id].updated_at = ts,
                      ![id].status = IF n > MAX_RETRY_ATTEMPTS THEN "failed" ELSE @,
                      ![id].error = IF n > MAX_RETRY_ATTEMPTS
                                    THEN "max_retries_exceeded" ELSE @]
    ELSE p

\* (mutant) the attempts are counted, the item is never failed
mark_retry_never_fails(p, id, ts) ==
    IF id \in DOMAIN p
    THEN [p EXCEPT ![id].attempts = @ + 1, ![id].updated_at = ts]
    ELSE p

\* OutboxManager.mark_retry
mark_retry(p, id, ts) ==
    IF id \in DOMAIN p
    THEN LET n == p[id].attempts + 1
         IN [p EXCEPT ![id].attempts = n,
                      ![id].updated_at = ts,
                      ![id].status = IF n >= MAX_RETRY_ATTEMPTS THEN "failed" ELSE @,
                      ![id].error = IF n >= MAX_RETRY_ATTEMPTS
                                    THEN "max_retries_exceeded" ELSE @]
    ELSE p

\* ActionExecutor._can_execute: "" when the item may be sent, else the reason.
\* The executor is wired with a TrustManager (self._trust_mgr is set).
\* (mutant) no pre-flight check at execution time
_can_execute_unchecked(item, blk) == ""

_can_execute(item, blk) ==
    IF item.target_agent_id # "" /\ item.target_agent_id \in blk
    THEN "blocked" ELSE ""

\* ActionExecutor._resolve_transport: the method, "" when there is none
_resolve_transport(item, c) ==
    IF item.transport_hint = "webhook:u" THEN "webhook"
    ELSE IF item.transport_hint = "udp:h" THEN "udp"
    ELSE IF item.target_agent_id # "" /\ item.target_agent_id \in c.cards THEN "webhook"
    ELSE IF c.udp_enabled THEN "udp"
    ELSE ""

\* ActionExecutor._on_success, on the stores fx = [inter, contacts, conv] of
\* the trust manager, the matchmaker and the conversation manager the
\* executor is wired with
_on_success(fx, item) ==
    LET target == item.target_agent_id
        conv_id == item.conversation_id
    IN [inter    |-> IF target # ""
                     THEN Append(fx.inter, [agent_id |-> target, dir |-> "out"])
                     ELSE fx.inter,
        contacts |-> IF target # "" THEN Append(fx.contacts, target) ELSE fx.contacts,
        conv     |-> IF conv_id # "" /\ conv_id \in DOMAIN fx.conv
                     THEN [fx.conv EXCEPT ![conv_id] = @ + 1]
                     ELSE fx.conv]

\* (mutant) the success side effects also run after a failed send
DrainItem_effects_on_failure(st, item_id, blk, c, ok, ts) ==
    LET item == st.p[item_id]
        reason == _can_execute(item, blk)
        method == _resolve_transport(item, c)
        res(x) == Append(st.results, [action_id |-> item_id, status |-> x])
    IN IF reason # ""
       THEN [st EXCEPT !.p = mark_failed(st.p, item_id, reason, ts),
                       !.results = res("skipped")]
       ELSE IF method = ""
       THEN [st EXCEPT !.p = mark_retry(st.p, item_id, ts),
                       !.results = res("no_transport")]
       ELSE IF ok
       THEN [st EXCEPT !.p = mark_sent(st.p, item_id, ts),
                       !.results = res("sent"),
                       !.fx = _on_success(st.fx, item)]
       ELSE [st EXCEPT !.p = mark_retry(st.p, item_id, ts),
                       !.results = res("failed"),
                       !.fx = _on_success(st.fx, item)]

\* One iteration of drain's loop.  st = [p, results, fx]; ok is what the
\* transport answers if the item is handed to it; ts is the time.
DrainItem(st, item_id, blk, c, ok, ts) ==
    LET item == st.p[item_id]
        reason == _can_execute(item, blk)
        method == _resolve_transport(item, c)
        res(x) == Append(st.results, [action_id |-> item_id, status |-> x])
    IN IF reason # ""
       THEN [st EXCEPT !.p = mark_failed(st.p, item_id, reason, ts),
                       !.results = res("skipped")]
       ELSE IF method = ""
       THEN [st EXCEPT !.p = mark_retry(st.p, item_id, ts),
                       !.results = res("no_transport")]
       ELSE IF ok
       THEN [st EXCEPT !.p = mark_sent(st.p, item_id, ts),
                       !.results = res("sent"),
                       !.fx = _on_success(st.fx, item)]
       ELSE [st EXCEPT !.p = mark_retry(st.p, item_id, ts),
                       !.results = res("failed")]

RECURSIVE DrainLoop(_, _, _, _, _, _)
DrainLoop(st, items, blk, c, outs, ts) ==
    IF items = <<>> THEN st
    ELSE DrainLoop(DrainItem(st, Head(items), blk, c, outs[Head(items)], ts),
                   Tail(items), blk, c, outs, ts)

drain(p, fx, max_actions, blk, c, outs, ts) ==
    DrainLoop([p |-> p, results |-> <<>>, fx |-> fx],
              pending(p, max_actions), blk, c, outs, ts)

\* the stores drain's side effects go to, as they are now
Stores == [inter |-> interactions, contacts |-> contacts, conv |-> conversations]

\* what a drain cycle run now with these inputs would end in
DrainNow(max_actions, outs) ==
    drain(outbox_pending, Stores, max_actions, blocked, cfg, outs, now)

\* The items a drain result says were handed to a transport
Handed(results) ==
    {results[k].action_id : k \in {k \in 1..Len(results) : results[k].status \in {"sent", "failed"}}}

\* ... and those it attempted at all (past the pre-flight check)
Attempted(results) ==
    {results[k].action_id : k \in {k \in 1..Len(results) : results[k].status # "skipped"}}

\* the ids queue has handed out so far
Queued == {outbox_log[k] : k \in 1..Len(outbox_log)}

\* ConversationManager.get_or_create, as the executor's queue_* methods call
\* it before they queue an item for a target
get_or_create(conv, conv_id) ==
    IF conv_id = "" \/ conv_id \in DOMAIN conv THEN conv ELSE Put(conv, conv_id, 0)

\* OutboxManager.queue, called by the executor's queue_* methods.  The id is
\* a fresh random token; an item without a target carries no conversation.
Queue(id, target, hint, conv_id) ==
    /\ id \notin Queued
    /\ target = "" => conv_id = ""
    /\ outbox_log' = Append(outbox_log, id)
    /\ outbox_pending' = Put(outbox_pending, id,
           [status |-> "pending", attempts |-> 0, error |-> "",
            target_agent_id |-> target, transport_hint |-> hint,
            conversation_id |-> conv_id,
            created_at |-> now, updated_at |-> now])
    /\ conversations' = get_or_create(conversations, conv_id)
    /\ UNCHANGED <<race_vars, goal_vars, anchor_vars, keys_vars, presence_vars, heartbeat_vars, atlas_vars, rules_vars, inbox_vars, now, blocked, interactions, contacts, cfg,
                   task_vars, contract_vars, accord_vars>>

\* the state after a drain call that ended in st
DrainTo(st) ==
    /\ outbox_pending' = st.p
    /\ interactions' = st.fx.inter
    /\ contacts' = st.fx.contacts
    /\ conversations' = st.fx.conv
    /\ UNCHANGED <<race_vars, goal_vars, anchor_vars, keys_vars, presence_vars, heartbeat_vars, atlas_vars, rules_vars, inbox_vars, now, outbox_log, blocked, cfg, task_vars, contract_vars, accord_vars>>

Drain(max_actions, outs) == DrainTo(DrainNow(max_actions, outs))

MarkRetry(id) ==
    /\ id \in DOMAIN outbox_pending => outbox_pending[id].attempts < MaxAttempts
    /\ outbox_pending' = mark_retry(outbox_pending, id, now)
    /\ UNCHANGED <<race_vars, goal_vars, anchor_vars, keys_vars, presence_vars, heartbeat_vars, atlas_vars, rules_vars, inbox_vars, now, outbox_log, blocked, interactions, contacts, conversations, cfg,
                   task_vars, contract_vars, accord_vars>>

Block(agent_id) ==
    /\ blocked' = blocked \cup {agent_id}
    /\ UNCHANGED <<race_vars, goal_vars, anchor_vars, keys_vars, presence_vars, heartbeat_vars, atlas_vars, rules_vars, inbox_vars, now, outbox_pending, outbox_log, interactions, contacts, conversations,
                   cfg, task_vars, contract_vars, accord_vars>>

Unblock(agent_id) ==
    /\ blocked' = blocked \ {agent_id}
    /\ UNCHANGED <<race_vars, goal_vars, anchor_vars, keys_vars, presence_vars, heartbeat_vars, atlas_vars, rules_vars, inbox_vars, now, outbox_pending, outbox_log, interactions, contacts, conversations,
                   cfg, task_vars, contract_vars, accord_vars>>

InitOutbox ==
    /\ outbox_pending = EmptyMap
    /\ outbox_log = <<>>
    /\ blocked = {}
    /\ interactions = <<>>
    /\ contacts = <<>>
    /\ conversations = EmptyMap
    /\ cfg \in Configs

NextDrain ==
    \/ Tick
    \/ \E id \in ActionIds, target \in Targets, hint \in Hints, conv_id \in ConversationIds :
           Queue(id, target, hint, conv_id)
    \/ \E m \in 1..MaxActions, outs \in [ActionIds -> BOOLEAN] : Drain(m, outs)
    \/ \E id \in ActionIds : MarkRetry(id)
    \/ \E a \in Agents : Block(a)
    \/ \E a \in Agents : Unblock(a)

\* C1: an item is failed with error max_retries_exceeded exactly when its
\* attempts counter has reached MAX_RETRY_ATTEMPTS (so retrying below the
\* maximum never fails it) ...
C1_FailedIffExhausted ==
    \A id \in DOMAIN outbox_pending :
        (outbox_pending[id].status = "failed" /\ outbox_pending[id].error = "max_retries_exceeded")
            <=> outbox_pending[id].attempts >= MAX_RETRY_ATTEMPTS

\* ... and whatever drain cycle runs next only attempts items that are pending
\* with fewer than MAX_RETRY_ATTEMPTS attempts, an unsuccessful attempt adding
\* exactly one to the counter: no item is attempted a 4th time.
C1_NoFourthAttempt ==
    \A m \in 1..MaxActions, outs \in [ActionIds -> BOOLEAN] :
        LET st == DrainNow(m, outs)
            r == st.results
        IN \A k \in 1..Len(r) :
             LET id == r[k].action_id
             IN r[k].status # "skipped" =>
                  /\ outbox_pending[id].status = "pending"
                  /\ outbox_pending[id].attempts < MAX_RETRY_ATTEMPTS
                  /\ st.p[id].attempts =
                         IF r[k].status = "sent" THEN outbox_pending[id].attempts
                         ELSE outbox_pending[id].attempts + 1

\* C1: the outbox fails an item after exactly MAX_RETRY_ATTEMPTS unsuccessful
\* attempts, under any sequence of drain cycles and mark_retry calls.
C1_MaxRetry == C1_FailedIffExhausted /\ C1_NoFourthAttempt

\* an item that failed three sends and is now failed with max_retries_exceeded
C1_Witness ==
    \E id \in DOMAIN outbox_pending :
        /\ outbox_pending[id].status = "failed"
        /\ outbox_pending[id].error = "max_retries_exceeded"
        /\ outbox_pending[id].attempts = MAX_RETRY_ATTEMPTS

\* drain is invoked with some max_actions >= 1 and some transport answers
DrainSome ==
    \E m \in 1..MaxActions, outs \in [ActionIds -> BOOLEAN] : Drain(m, outs)

\* C32: as long as drain keeps being invoked, every item that is pending is
\* later sent or failed.
C32_PendingEventuallyTerminal ==
    \A id \in ActionIds :
        (id \in DOMAIN outbox_pending /\ outbox_pending[id].status = "pending")
            ~> (id \in DOMAIN outbox_pending /\ outbox_pending[id].status \in {"sent", "failed"})

\* an item without a resolvable transport has failed after its retries, and
\* so has an older item ahead of it
C32_Witness ==
    \E id \in DOMAIN outbox_pending, older \in DOMAIN outbox_pending :
        /\ older # id
        /\ Before(outbox_pending, older, id)
        /\ outbox_pending[older].status = "failed"
        /\ _resolve_transport(outbox_pending[id], cfg) = ""
        /\ outbox_pending[id].status = "failed"
        /\ outbox_pending[id].error = "max_retries_exceeded"

\* C10: in every reachable state, a drain cycle run now skips every item it
\* takes whose target is blocked at that moment: the item ends failed with
\* error "blocked" and is not handed to a transport.
C10_BlockedNeverSent ==
    \A m \in 1..MaxActions, outs \in [ActionIds -> BOOLEAN] :
        LET st == DrainNow(m, outs)
            r == st.results
        IN \A k \in 1..Len(r) :
             LET id == r[k].action_id
             IN outbox_pending[id].target_agent_id \in blocked =>
                  /\ r[k].status = "skipped"
                  /\ id \notin Handed(r)
                  /\ st.p[id].status = "failed"
                  /\ st.p[id].error = "blocked"
                  /\ st.p[id].attempts = outbox_pending[id].attempts

\* an item that was attempted once without success (its target was not
\* blocked then), whose target was blocked afterwards, and that drain then
\* failed with error "blocked"
C10_Witness ==
    \E id \in DOMAIN outbox_pending :
        /\ outbox_pending[id].status = "failed"
        /\ outbox_pending[id].error = "blocked"
        /\ outbox_pending[id].attempts >= 1
        /\ outbox_pending[id].target_agent_id \in blocked

\* the position of an item in the order queue was called
QueuePos(id) == CHOOSE k \in 1..Len(outbox_log) : outbox_log[k] = id

\* the ids a drain result lists
Processed(results) == {results[k].action_id : k \in 1..Len(results)}

\* a drain cycle run now processes min(max_actions, number of pending items)
\* items, in ascending created_at order, and leaves no pending item with a
\* smaller created_at than one it processed
DrainOldestByCreatedAt ==
    \A m \in 1..MaxActions, outs \in [ActionIds -> BOOLEAN] :
        LET r == DrainNow(m, outs).results
            pend == Eligible(outbox_pending)
        IN /\ Len(r) = Min(m, Cardinality(pend))
           /\ Processed(r) \subseteq pend
           /\ \A k \in 1..Len(r) - 1 :
                  outbox_pending[r[k].action_id].created_at
                      <= outbox_pending[r[k + 1].action_id].created_at
           /\ \A i \in Processed(r), j \in pend \ Processed(r) :
                  outbox_pending[i].created_at <= outbox_pending[j].created_at

\* C11: in every reachable state, a drain cycle run now processes the
\* min(max_actions, number of pending items) oldest pending items in the
\* order they were queued: no item it processes was queued after a pending
\* item it leaves untouched, and it processes them oldest first.
C11_DrainInsertionOrder ==
    /\ DrainOldestByCreatedAt
    /\ \A m \in 1..MaxActions, outs \in [ActionIds -> BOOLEAN] :
          LET r == DrainNow(m, outs).results
              pend == Eligible(outbox_pending)
          IN /\ \A i \in Processed(r), j \in pend \ Processed(r) :
                    QueuePos(i) < QueuePos(j)
             /\ \A k \in 1..Len(r) - 1 :
                    QueuePos(r[k].action_id) < QueuePos(r[k + 1].action_id)

\* the transport send of an item succeeds in a drain cycle run now: the item
\* passes the pre-flight check, has a transport, and the transport answers ok
Succeeds(id, outs) ==
    /\ _can_execute(outbox_pending[id], blocked) = ""
    /\ _resolve_transport(outbox_pending[id], cfg) # ""
    /\ outs[id]

\* what a drain cycle did to the stores, given the set S of items whose
\* success is said to have been recorded on the trust component and the
\* matchmaker
EffectsFor(st, ok_ids, S) ==
    /\ \A id \in Processed(st.results) : st.p[id].status = "sent" <=> id \in ok_ids
    /\ Len(st.fx.inter) = Len(interactions) + Cardinality(S)
    /\ SubSeq(st.fx.inter, 1, Len(interactions)) = interactions
    /\ \A k \in Len(interactions) + 1 .. Len(st.fx.inter) :
           /\ st.fx.inter[k].dir = "out"
           /\ \E id \in S : outbox_pending[id].target_agent_id = st.fx.inter[k].agent_id
    /\ Len(st.fx.contacts) = Len(contacts) + Cardinality(S)
    /\ SubSeq(st.fx.contacts, 1, Len(contacts)) = contacts
    /\ DOMAIN st.fx.conv = DOMAIN conversations
    /\ \A c \in DOMAIN conversations :
           st.fx.conv[c] = conversations[c]
               + Cardinality({id \in ok_ids : outbox_pending[id].conversation_id = c})

\* C14 (as stated): in every reachable state, a drain cycle run now marks an
\* item sent, records one dir=out interaction and one contact for it, and one
\* conversation message when it has a conversation_id, exactly for the items
\* whose transport send succeeded.
C14_EffectsIffSent ==
    \A m \in 1..MaxActions, outs \in [ActionIds -> BOOLEAN] :
        LET st == DrainNow(m, outs)
            ok_ids == {id \in Processed(st.results) : Succeeds(id, outs)}
        IN EffectsFor(st, ok_ids, ok_ids)

\* C14 (amended): ... marks an item sent, and records one conversation message
\* when it has a conversation_id, exactly for the items whose transport send
\* succeeded; it records one dir=out interaction and one contact exactly for
\* those of them that have a target agent.  Items skipped as blocked, without
\* a transport or whose send failed cause none of these.
C14_EffectsIffSentWithTarget ==
    \A m \in 1..MaxActions, outs \in [ActionIds -> BOOLEAN] :
        LET st == DrainNow(m, outs)
            ok_ids == {id \in Processed(st.results) : Succeeds(id, outs)}
        IN EffectsFor(st, ok_ids,
                      {id \in ok_ids : outbox_pending[id].target_agent_id # ""})

\* a drain cycle sent one item of a conversation and recorded it, while the
\* other item was tried without success and is recorded nowhere
C14_Witness ==
    \E i, j \in DOMAIN outbox_pending :
        /\ outbox_pending[i].status = "sent"
        /\ outbox_pending[i].conversation_id = "conv_1"
        /\ outbox_pending[j].status # "sent"
        /\ outbox_pending[j].attempts >= 1
        /\ outbox_pending[j].target_agent_id # ""
        /\ Len(interactions) = 1
        /\ contacts = << outbox_pending[i].target_agent_id >>
        /\ conversations["conv_1"] = 1

(***************************************************************************)
(* The outbox on its own: the operations of OutboxManager that write the   *)
(* pending index, called directly and in any order.                        *)
(***************************************************************************)
SECONDS_PER_DAY == 86400

TerminalStatuses == {"sent", "delivered", "failed"}
Errors == {"", "boom"}
MaxAgeDays == {0, 1}

\* OutboxManager.count_pending
count_pending(p) == Len(pending(p, 9999))

\* (mutant) the age of an item is taken from created_at
cleanup_by_created_at(p, max_age_days, ts) ==
    LET cutoff == ts - max_age_days * SECONDS_PER_DAY
        to_remove == {aid \in DOMAIN p : /\ p[aid].status \in TerminalStatuses
                                         /\ p[aid].created_at < cutoff}
    IN [aid \in DOMAIN p \ to_remove |-> p[aid]]

\* OutboxManager.cleanup: the index without the items it removes
cleanup(p, max_age_days, ts) ==
    LET cutoff == ts - max_age_days * SECONDS_PER_DAY
        to_remove == {aid \in DOMAIN p : /\ p[aid].status \in {"sent", "delivered", "failed"}
                                         /\ p[aid].updated_at < cutoff}
    IN [aid \in DOMAIN p \ to_remove |-> p[aid]]

\* a direct call that rewrites the pending index to q
WriteIndex(q) ==
    /\ outbox_pending' = q
    /\ UNCHANGED <<race_vars, goal_vars, anchor_vars, keys_vars, presence_vars, heartbeat_vars, atlas_vars, rules_vars, inbox_vars, now, outbox_log, blocked, interactions, contacts, conversations, cfg,
                   task_vars, contract_vars, accord_vars>>

MarkSent(id) == WriteIndex(mark_sent(outbox_pending, id, now))
MarkDelivered(id) == WriteIndex(mark_delivered(outbox_pending, id, now))
MarkFailed(id, error) == WriteIndex(mark_failed(outbox_pending, id, error, now))
Cleanup(max_age_days) == WriteIndex(cleanup(outbox_pending, max_age_days, now))

NextOutbox ==
    \/ Tick
    \/ \E id \in ActionIds : Queue(id, "", "", "")
    \/ \E id \in ActionIds : MarkSent(id)
    \/ \E id \in ActionIds : MarkDelivered(id)
    \/ \E id \in ActionIds, error \in Errors : MarkFailed(id, error)
    \/ \E id \in ActionIds : MarkRetry(id)
    \/ \E d \in MaxAgeDays : Cleanup(d)

\* C12: in every state reached by queue / mark_sent / mark_failed /
\* mark_retry (and the other operations), the items pending() returns when
\* the limit allows, and count_pending counts, are exactly the items whose
\* status is pending and whose attempts are below MAX_RETRY_ATTEMPTS; a
\* smaller limit returns that many of them.
C12_PendingIff ==
    LET ready == {id \in DOMAIN outbox_pending :
                     /\ outbox_pending[id].status = "pending"
                     /\ outbox_pending[id].attempts < MAX_RETRY_ATTEMPTS}
        all == pending(outbox_pending, 9999)
    IN /\ {all[k] : k \in 1..Len(all)} = ready
       /\ Len(all) = Cardinality(ready)
       /\ count_pending(outbox_pending) = Cardinality(ready)
       /\ \A limit \in 1..MaxActions :
             LET some == pending(outbox_pending, limit)
             IN /\ {some[k] : k \in 1..Len(some)} \subseteq ready
                /\ Len(some) = Min(limit, Cardinality(ready))

\* one item was retried twice and is still pending, another is sent or failed
C12_Witness ==
    \E i, j \in DOMAIN outbox_pending :
        /\ outbox_pending[i].status = "pending"
        /\ outbox_pending[i].attempts = MAX_RETRY_ATTEMPTS - 1
        /\ outbox_pending[j].status \in {"sent", "failed"}
        /\ count_pending(outbox_pending) = 1

\* C13: in every step, an item that is failed does not become sent or
\* pending, and an item that is sent does not become failed or pending.
C13_TerminalStatusStays ==
    [][\A id \in DOMAIN outbox_pending \cap DOMAIN outbox_pending' :
           /\ outbox_pending[id].status = "failed"
                  => outbox_pending'[id].status \notin {"sent", "pending"}
           /\ outbox_pending[id].status = "sent"
                  => outbox_pending'[id].status \notin {"failed", "pending"}]_vars

\* C15: in every reachable state, cleanup(max_age_days) run now removes
\* exactly the items whose status is sent, delivered or failed and whose
\* updated_at is before now - max_age_days * 86400, and leaves every other
\* item as it was.
C15_CleanupExact ==
    \A d \in MaxAgeDays :
        LET q == cleanup(outbox_pending, d, now)
            old == {id \in DOMAIN outbox_pending :
                       /\ outbox_pending[id].status \in TerminalStatuses
                       /\ outbox_pending[id].updated_at < now - d * SECONDS_PER_DAY}
        IN /\ DOMAIN q = DOMAIN outbox_pending \ old
           /\ \A id \in DOMAIN q : q[id] = outbox_pending[id]
           /\ \A id \in DOMAIN outbox_pending :
                  outbox_pending[id].status = "pending" => id \in DOMAIN q

\* cleanup has removed an old terminal item and kept a terminal item that
\* was queued before now and updated now
C15_Witness ==
    /\ \E id \in Queued : id \notin DOMAIN outbox_pending
    /\ \E id \in DOMAIN outbox_pending :
           /\ outbox_pending[id].status \in TerminalStatuses
           /\ outbox_pending[id].updated_at = now
           /\ outbox_pending[id].created_at < now

(***************************************************************************)
(* The pending index under two threads.  OutboxManager keeps nothing in    *)
(* memory and takes no lock: queue and the mark_* methods each read        *)
(* outbox_pending.json, change one item and write the whole index back.    *)
(* The event handlers queue while the scheduler's drain marks, so a call   *)
(* of one thread can fall between the read and the write of the other.     *)
(***************************************************************************)
MarkOps == {"mark_sent", "mark_failed", "mark_retry"}

\* what a mark_* call writes, given the index it read
Marked(op, p, id, ts) ==
    CASE op = "mark_sent"   -> mark_sent(p, id, ts)
      [] op = "mark_failed" -> mark_failed(p, id, "blocked", ts)
      [] op = "mark_retry"  -> mark_retry(p, id, ts)

\* queue up to _read_pending: the id is generated, the item logged
QueueRead(t, id, target) ==
    /\ ob_calls[t].pc = "idle"
    /\ id \notin Queued
    /\ outbox_log' = Append(outbox_log, id)
    /\ ob_calls' = [ob_calls EXCEPT ![t] = [pc |-> "queue", id |-> id, target |-> target,
                                            read |-> outbox_pending]]
    /\ UNCHANGED <<now, outbox_pending, blocked, interactions, contacts, conversations, cfg,
                   goal_vars, anchor_vars, keys_vars, presence_vars, heartbeat_vars,
                   atlas_vars, rules_vars, inbox_vars, task_vars, contract_vars, accord_vars>>

\* queue from pending[action_id] = item to the return of the id
QueueWrite(t) ==
    /\ ob_calls[t].pc = "queue"
    /\ outbox_pending' = Put(ob_calls[t].read, ob_calls[t].id,
           [status |-> "pending", attempts |-> 0, error |-> "",
            target_agent_id |-> ob_calls[t].target, transport_hint |-> "",
            conversation_id |-> "",
            created_at |-> now, updated_at |-> now])
    /\ ob_calls' = [ob_calls EXCEPT ![t] = [pc |-> "idle"]]
    /\ UNCHANGED <<now, outbox_log, blocked, interactions, contacts, conversations, cfg,
                   goal_vars, anchor_vars, keys_vars, presence_vars, heartbeat_vars,
                   atlas_vars, rules_vars, inbox_vars, task_vars, contract_vars, accord_vars>>

\* a mark_* call of drain, for an item pending() gave it, up to _read_pending
MarkRead(t, op, id) ==
    /\ ob_calls[t].pc = "idle"
    /\ id \in Eligible(outbox_pending)
    /\ ob_calls' = [ob_calls EXCEPT ![t] = [pc |-> "mark", op |-> op, id |-> id,
                                            read |-> outbox_pending]]
    /\ UNCHANGED <<now, outbox_pending, outbox_log, blocked, interactions, contacts,
                   conversations, cfg,
                   goal_vars, anchor_vars, keys_vars, presence_vars, heartbeat_vars,
                   atlas_vars, rules_vars, inbox_vars, task_vars, contract_vars, accord_vars>>

\* the mark_* call from the change of the item to _write_pending
MarkWrite(t) ==
    /\ ob_calls[t].pc = "mark"
    /\ outbox_pending' = Marked(ob_calls[t].op, ob_calls[t].read, ob_calls[t].id, now)
    /\ ob_calls' = [ob_calls EXCEPT ![t] = [pc |-> "idle"]]
    /\ UNCHANGED <<now, outbox_log, blocked, interactions, contacts, conversations, cfg,
                   goal_vars, anchor_vars, keys_vars, presence_vars, heartbeat_vars,
                   atlas_vars, rules_vars, inbox_vars, task_vars, contract_vars, accord_vars>>

NextRace ==
    \/ Tick
    \/ \E id \in ActionIds, target \in Targets : QueueRead("handler", id, target)
    \/ QueueWrite("handler")
    \/ \E op \in MarkOps, id \in ActionIds : MarkRead("scheduler", op, id)
    \/ MarkWrite("scheduler")

\* C33: in every step, an item of the pending index that changes or goes is
\* the item of the mark_* call that is writing, so that no queued item is
\* lost and no status or attempt count is overwritten from another call's
\* stale snapshot; and every id queue has returned is in the index.
C33_NoLostUpdate ==
    [][/\ \A id \in DOMAIN outbox_pending :
              (id \notin DOMAIN outbox_pending' \/ outbox_pending'[id] # outbox_pending[id]) =>
                  \E t \in Threads :
                      /\ ob_calls[t].pc = "mark"
                      /\ ob_calls[t].id = id
                      /\ ob_calls'[t].pc = "idle"
       /\ \A t \in Threads :
              (ob_calls[t].pc = "queue" /\ ob_calls'[t].pc = "idle") =>
                  Queued \subseteq DOMAIN outbox_pending']_vars

\* what holds: a call that writes while the index is still the one it read
\* changes no item but its own
WriteOfFreshSnapshot ==
    [][\A t \in Threads :
           (ob_calls[t].pc # "idle" /\ ob_calls'[t].pc = "idle"
            /\ ob_calls[t].read = outbox_pending) =>
               /\ DOMAIN outbox_pending \subseteq DOMAIN outbox_pending'
               /\ \A id \in DOMAIN outbox_pending \ {ob_calls[t].id} :
                      outbox_pending'[id] = outbox_pending[id]]_vars

(***************************************************************************)
(* Tasks (tasks.py): an event-sourced state machine over tasks.jsonl.      *)
(* An event is modelled by its task_id and state; the other fields of an   *)
(* event (worker, delivery_url, ...) decide no state.                      *)
(***************************************************************************)
MaxTaskEvents == 5      \* tasks.jsonl holds at most this many events

TaskIds == {"t1", "t2"}
TaskStates == {"open", "offered", "accepted", "delivered", "confirmed",
               "paid", "cancelled", "rejected", "disputed"}
TerminalTaskStates == {"paid", "cancelled", "rejected"}
EnvelopeKinds == {"bounty", "offer", "accept", "deliver", "confirm", "pay", "hello"}
NoTask == "None"

TRANSITIONS ==
    [open      |-> {"offered", "cancelled"},
     offered   |-> {"accepted", "rejected", "cancelled"},
     accepted  |-> {"delivered", "cancelled"},
     delivered |-> {"confirmed", "disputed"},
     confirmed |-> {"paid"},
     disputed  |-> {"confirmed", "cancelled"}]

KIND_TO_STATE ==
    [bounty |-> "open", offer |-> "offered", accept |-> "accepted",
     deliver |-> "delivered", confirm |-> "confirmed", pay |-> "paid"]

\* TaskManager._build_task_state: fold the task's events, later fields
\* overwriting earlier ones (state.update(evt)); NoTask without events
RECURSIVE FoldTask(_, _, _)
FoldTask(log, task_id, acc) ==
    IF log = <<>> THEN acc
    ELSE FoldTask(Tail(log), task_id,
                  IF Head(log).task_id = task_id THEN Head(log).state ELSE acc)

_build_task_state(log, task_id) == FoldTask(log, task_id, NoTask)

\* TaskManager.get
get(log, task_id) == _build_task_state(log, task_id)

\* TRANSITIONS.get(current_state, [])
valid_next(current_state) ==
    IF current_state \in DOMAIN TRANSITIONS THEN TRANSITIONS[current_state] ELSE {}

\* (mutant) the target state is not validated
transition_unvalidated(log, task_id, new_state) ==
    IF _build_task_state(log, task_id) = NoTask
    THEN [log |-> log, result |-> "ValueError"]
    ELSE [log |-> Append(log, [task_id |-> task_id, state |-> new_state]), result |-> "ok"]

\* TaskManager.transition: the log after the call and how it returned
transition(log, task_id, new_state) ==
    LET current == _build_task_state(log, task_id)
    IN IF current = NoTask THEN [log |-> log, result |-> "ValueError"]
       ELSE IF new_state \notin valid_next(current) THEN [log |-> log, result |-> "ValueError"]
       ELSE [log |-> Append(log, [task_id |-> task_id, state |-> new_state]), result |-> "ok"]

\* TaskManager.auto_transition_from_envelope
auto_transition_from_envelope(log, kind, task_id) ==
    IF task_id = "" \/ kind \notin DOMAIN KIND_TO_STATE THEN [log |-> log, result |-> "None"]
    ELSE IF KIND_TO_STATE[kind] = "open" THEN [log |-> log, result |-> "None"]
    ELSE LET r == transition(log, task_id, KIND_TO_STATE[kind])
         IN IF r.result = "ValueError" THEN [log |-> log, result |-> "None"]
            ELSE [log |-> r.log, result |-> "event"]

\* TaskManager.create: the envelope's task_id, or a generated one when it
\* carries none; the task's existence is not looked at
create(log, task_id) == Append(log, [task_id |-> task_id, state |-> "open"])

TaskIdsIn(log) == {log[i].task_id : i \in 1..Len(log)}

Create(envelope_task_id) ==
    /\ Len(tasks_log) < MaxTaskEvents
    /\ \E task_id \in TaskIds :
         /\ IF envelope_task_id # "" THEN task_id = envelope_task_id
            ELSE task_id \notin TaskIdsIn(tasks_log)      \* generate_task_id()
         /\ tasks_log' = create(tasks_log, task_id)
    /\ task_op' = [op |-> "create", result |-> "ok"]
    /\ UNCHANGED <<race_vars, goal_vars, anchor_vars, keys_vars, presence_vars, heartbeat_vars, atlas_vars, rules_vars, inbox_vars, now, outbox_vars, contract_vars, accord_vars>>

Transition(task_id, new_state) ==
    LET r == transition(tasks_log, task_id, new_state)
    IN /\ Len(tasks_log) < MaxTaskEvents
       /\ tasks_log' = r.log
       /\ task_op' = [op |-> "transition", result |-> r.result]
       /\ UNCHANGED <<race_vars, goal_vars, anchor_vars, keys_vars, presence_vars, heartbeat_vars, atlas_vars, rules_vars, inbox_vars, now, outbox_vars, contract_vars, accord_vars>>

AutoTransition(kind, task_id) ==
    LET r == auto_transition_from_envelope(tasks_log, kind, task_id)
    IN /\ Len(tasks_log) < MaxTaskEvents
       /\ tasks_log' = r.log
       /\ task_op' = [op |-> "auto_transition_from_envelope", result |-> r.result]
       /\ UNCHANGED <<race_vars, goal_vars, anchor_vars, keys_vars, presence_vars, heartbeat_vars, atlas_vars, rules_vars, inbox_vars, now, outbox_vars, contract_vars, accord_vars>>

NextTasks ==
    \/ \E t \in TaskIds \cup {""} : Create(t)
    \/ \E t \in TaskIds, s \in TaskStates : Transition(t, s)
    \/ \E k \in EnvelopeKinds, t \in TaskIds \cup {""} : AutoTransition(k, t)

\* C2: in every reachable state, transition(task_id, new_state) succeeds
\* exactly when the task exists and new_state is in TRANSITIONS[its state];
\* then it appends one event; otherwise it raises, appends nothing, and the
\* state get(task_id) returns is what it was.
C2_TransitionValidated ==
    \A t \in TaskIds, s \in TaskStates :
        LET current == get(tasks_log, t)
            r == transition(tasks_log, t, s)
            allowed == /\ current \in {"open", "offered", "accepted", "delivered",
                                       "confirmed", "disputed"}
                       /\ s \in TRANSITIONS[current]
        IN /\ r.result = "ok" <=> allowed
           /\ r.result = "ok" =>
                /\ Len(r.log) = Len(tasks_log) + 1
                /\ SubSeq(r.log, 1, Len(tasks_log)) = tasks_log
                /\ get(r.log, t) = s
           /\ r.result # "ok" =>
                /\ r.result = "ValueError"
                /\ r.log = tasks_log
                /\ get(r.log, t) = current

\* a transition was just refused while some task had already moved on
C2_Witness ==
    /\ task_op.op = "transition"
    /\ task_op.result = "ValueError"
    /\ \E t \in TaskIds : get(tasks_log, t) \in {"offered", "delivered", "paid"}

\* C5: once get(task_id) returns paid, cancelled or rejected, no TaskManager
\* operation changes what it returns.
C5_TerminalTaskStays ==
    [][\A t \in TaskIds :
          get(tasks_log, t) \in TerminalTaskStates => get(tasks_log', t) = get(tasks_log, t)]_vars

(***************************************************************************)
(* Contracts (contracts.py).  ContractManager holds _contracts and         *)
(* _escrow in memory, loads them from contracts.json and escrow.json when  *)
(* it is constructed, and writes files in the order the code does.  An     *)
(* operation is a function from the in-memory state to the new in-memory   *)
(* state, the file writes it makes in order, and how it returns.  A run of *)
(* an operation may stop after any number of its writes (the process       *)
(* dies); the next ContractManager then loads what is on disk.             *)
(***************************************************************************)
MaxContractEvents == 6  \* a contract holds at most this many events
MaxContractLog == 5     \* contract_log.jsonl holds at most this many entries

PENALTY_PCT == 10       \* default penalty_pct of list_agent

ContractIds == {"ctr_1"}
Parties == {"seller", "buyer"}
EscrowAmounts == {10}
DefaultTotalPeriods == 12

\* (mutant) a settled contract can still be terminated
VALID_TRANSITIONS_settled_exits ==
    [listed     |-> {"offered", "terminated"},
     offered    |-> {"accepted", "listed", "terminated"},
     accepted   |-> {"active", "terminated"},
     active     |-> {"renewed", "expired", "breached", "terminated", "settled"},
     renewed    |-> {"expired", "breached", "terminated", "settled"},
     expired    |-> {"settled"},
     breached   |-> {"settled", "terminated"},
     terminated |-> {"settled"},
     settled    |-> {"terminated"}]

VALID_TRANSITIONS ==
    [listed     |-> {"offered", "terminated"},
     offered    |-> {"accepted", "listed", "terminated"},
     accepted   |-> {"active", "terminated"},
     active     |-> {"renewed", "expired", "breached", "terminated", "settled"},
     renewed    |-> {"expired", "breached", "terminated", "settled"},
     expired    |-> {"settled"},
     breached   |-> {"settled", "terminated"},
     terminated |-> {"settled"}]

\* VALID_TRANSITIONS.get(current, [])
allowed_from(current) ==
    IF current \in DOMAIN VALID_TRANSITIONS THEN VALID_TRANSITIONS[current] ELSE {}

\* _history_hash: SHA-256 of the JSON of the events list, taken to be
\* collision-free: the digest stands for the list it was computed from
_history_hash(events) == [sha256 |-> events]

\* ContractManager._save: contracts.json, then escrow.json
_save(c, e) == << [file |-> "contracts", val |-> c], [file |-> "escrow", val |-> e] >>

_append_log(entry) == << [file |-> "log", val |-> entry] >>

Return(c, e, writes, result) == [c |-> c, e |-> e, writes |-> writes, result |-> result]

Error(c, e) == Return(c, e, <<>>, "error")

Event(type, by) == [type |-> type, by |-> by, evidence |-> "-"]

\* (mutant) the target state is not checked against VALID_TRANSITIONS
_transition_unchecked(c, e, contract_id, new_state, by) ==
    IF contract_id \notin DOMAIN c THEN Error(c, e)
    ELSE LET events == Append(c[contract_id].events, Event(new_state, by))
             c2 == [c EXCEPT ![contract_id].state = new_state,
                             ![contract_id].events = events,
                             ![contract_id].history_hash = _history_hash(events)]
         IN Return(c2, e,
                   _append_log([contract_id |-> contract_id,
                                from |-> c[contract_id].state, to |-> new_state])
                       \o _save(c2, e),
                   "ok")

\* ContractManager._transition
_transition(c, e, contract_id, new_state, by) ==
    IF contract_id \notin DOMAIN c THEN Error(c, e)
    ELSE IF new_state \notin allowed_from(c[contract_id].state) THEN Error(c, e)
    ELSE LET events == Append(c[contract_id].events, Event(new_state, by))
             c2 == [c EXCEPT ![contract_id].state = new_state,
                             ![contract_id].events = events,
                             ![contract_id].history_hash = _history_hash(events)]
         IN Return(c2, e,
                   _append_log([contract_id |-> contract_id,
                                from |-> c[contract_id].state, to |-> new_state])
                       \o _save(c2, e),
                   "ok")

\* ContractManager.list_agent (valid arguments)
list_agent(c, e, contract_id, contract_type, total_periods) ==
    LET events == << Event("listed", "seller") >>
        contract == [state |-> "listed", type |-> contract_type, buyer_id |-> "",
                     events |-> events,
                     history_hash |-> _history_hash(events)]
        lto == [lease_to_own |-> [total_periods |-> total_periods, completed_periods |-> 0]]
        c2 == Put(c, contract_id,
                  IF contract_type = "lease_to_own" THEN contract @@ lto ELSE contract)
    IN Return(c2, e, _save(c2, e), "ok")

\* ContractManager.make_offer
make_offer(c, e, contract_id) ==
    IF contract_id \notin DOMAIN c THEN Error(c, e)
    ELSE IF c[contract_id].state # "listed" THEN Error(c, e)
    ELSE LET c1 == [c EXCEPT ![contract_id].buyer_id = "buyer"]
         IN _transition(c1, e, contract_id, "offered", "buyer")

\* ContractManager.accept_offer: the transition, then accepted_at and a save
accept_offer(c, e, contract_id) ==
    IF contract_id \notin DOMAIN c THEN Error(c, e)
    ELSE LET r == _transition(c, e, contract_id, "accepted", "seller")
         IN IF r.result = "error" THEN r
            ELSE Return(r.c, r.e, r.writes \o _save(r.c, r.e), "ok")

\* ContractManager.reject_offer: the transition, then the buyer is cleared
reject_offer(c, e, contract_id) ==
    IF contract_id \notin DOMAIN c THEN Error(c, e)
    ELSE LET r == _transition(c, e, contract_id, "listed", "seller")
         IN IF r.result = "error" THEN r
            ELSE LET c2 == [r.c EXCEPT ![contract_id].buyer_id = ""]
                 IN Return(c2, r.e, r.writes \o _save(c2, r.e), "ok")

\* ContractManager.fund_escrow
fund_escrow(c, e, contract_id, amount_rtc) ==
    IF contract_id \notin DOMAIN c THEN Error(c, e)
    ELSE IF c[contract_id].state \notin {"accepted", "active", "renewed"} THEN Error(c, e)
    ELSE LET e2 == Put(e, contract_id, [amount_rtc |-> amount_rtc, released |-> FALSE,
                                        released_to |-> "", penalty_deducted |-> 0])
         IN Return(c, e2, _save(c, e2), "ok")

\* (mutant) the escrow is released in full whatever the contract's history
release_escrow_no_penalty(c, e, contract_id, to_address) ==
    IF contract_id \notin DOMAIN e THEN Error(c, e)
    ELSE IF e[contract_id].released THEN Error(c, e)
    ELSE LET e2 == [e EXCEPT ![contract_id].released = TRUE,
                             ![contract_id].released_to = to_address,
                             ![contract_id].penalty_deducted = 0]
         IN Return(c, e2, _save(c, e2), "ok")

\* ContractManager.release_escrow
release_escrow(c, e, contract_id, to_address) ==
    IF contract_id \notin DOMAIN e THEN Error(c, e)
    ELSE IF e[contract_id].released THEN Error(c, e)
    ELSE LET was_breached ==
                 /\ contract_id \in DOMAIN c
                 /\ \E i \in 1..Len(c[contract_id].events) :
                        c[contract_id].events[i].type = "breached"
             penalty == IF was_breached
                        THEN (e[contract_id].amount_rtc * PENALTY_PCT) \div 100
                        ELSE 0
             e2 == [e EXCEPT ![contract_id].released = TRUE,
                             ![contract_id].released_to = to_address,
                             ![contract_id].penalty_deducted = penalty]
         IN Return(c, e2, _save(c, e2), "ok")

\* ContractManager.activate: the transition, then activated_at / expires_at
\* and a save
activate(c, e, contract_id) ==
    IF contract_id \notin DOMAIN c THEN Error(c, e)
    ELSE LET r == _transition(c, e, contract_id, "active", "seller")
         IN IF r.result = "error" THEN r
            ELSE Return(r.c, r.e, r.writes \o _save(r.c, r.e), "ok")

\* ContractManager.renew
renew(c, e, contract_id) ==
    IF contract_id \notin DOMAIN c THEN Error(c, e)
    ELSE LET r == _transition(c, e, contract_id, "renewed", c[contract_id].buyer_id)
         IN IF r.result = "error" THEN r
            ELSE LET c2 == IF "lease_to_own" \in DOMAIN r.c[contract_id]
                           THEN [r.c EXCEPT ![contract_id].lease_to_own.completed_periods = @ + 1]
                           ELSE r.c
                 IN Return(c2, r.e, r.writes \o _save(c2, r.e), "ok")

\* ContractManager.expire
expire(c, e, contract_id) == _transition(c, e, contract_id, "expired", "")

\* (mutant) the evidence is written into the event, the hash is left as it was
breach_stale_hash(c, e, contract_id, breacher_id) ==
    IF contract_id \notin DOMAIN c THEN Error(c, e)
    ELSE LET r == _transition(c, e, contract_id, "breached", breacher_id)
         IN IF r.result = "error" THEN r
            ELSE LET evs == r.c[contract_id].events
                     evs2 == [evs EXCEPT ![Len(evs)].evidence = "ev"]
                     c2 == [r.c EXCEPT ![contract_id].events = evs2]
                 IN Return(c2, r.e, r.writes \o _save(c2, r.e), "ok")

\* ContractManager.breach: the transition, then the evidence is written into
\* the event just appended, the hash recomputed, and a save
breach(c, e, contract_id, breacher_id) ==
    IF contract_id \notin DOMAIN c THEN Error(c, e)
    ELSE LET r == _transition(c, e, contract_id, "breached", breacher_id)
         IN IF r.result = "error" THEN r
            ELSE LET evs == r.c[contract_id].events
                     evs2 == [evs EXCEPT ![Len(evs)].evidence = "ev"]
                     c2 == [r.c EXCEPT ![contract_id].events = evs2,
                                       ![contract_id].history_hash = _history_hash(evs2)]
                 IN Return(c2, r.e, r.writes \o _save(c2, r.e), "ok")

\* ContractManager.terminate
terminate(c, e, contract_id, terminator_id) ==
    _transition(c, e, contract_id, "terminated", terminator_id)

\* ContractManager.settle: the transition (log, save), settled_at and a save,
\* then the escrow is released to the seller (another save)
settle(c, e, contract_id) ==
    IF contract_id \notin DOMAIN c THEN Error(c, e)
    ELSE LET r == _transition(c, e, contract_id, "settled", "")
         IN IF r.result = "error" THEN r
            ELSE LET w == r.writes \o _save(r.c, r.e)
                 IN IF contract_id \in DOMAIN r.e /\ ~r.e[contract_id].released
                    THEN LET rel == release_escrow(r.c, r.e, contract_id, "seller")
                         IN Return(rel.c, rel.e, w \o rel.writes, "ok")
                    ELSE Return(r.c, r.e, w, "ok")

\* (mutant) the completed periods of a lease_to_own contract are not checked
transfer_ownership_unchecked(c, e, contract_id) ==
    IF contract_id \notin DOMAIN c THEN Error(c, e)
    ELSE IF c[contract_id].type \notin {"buy", "lease_to_own"} THEN Error(c, e)
    ELSE IF c[contract_id].state \notin {"active", "settled"} THEN Error(c, e)
    ELSE LET events == Append(c[contract_id].events, Event("ownership_transferred", "seller"))
             c2 == [c EXCEPT ![contract_id].events = events,
                             ![contract_id].history_hash = _history_hash(events)]
         IN Return(c2, e,
                   _save(c2, e) \o _append_log([contract_id |-> contract_id,
                                                type |-> "ownership_transfer"]),
                   "ok")

\* ContractManager.transfer_ownership (no atlas manager)
transfer_ownership(c, e, contract_id) ==
    IF contract_id \notin DOMAIN c THEN Error(c, e)
    ELSE IF c[contract_id].type \notin {"buy", "lease_to_own"} THEN Error(c, e)
    ELSE IF c[contract_id].state \notin {"active", "settled"} THEN Error(c, e)
    ELSE IF /\ c[contract_id].type = "lease_to_own"
            /\ c[contract_id].lease_to_own.completed_periods
                   < c[contract_id].lease_to_own.total_periods
    THEN Error(c, e)
    ELSE LET events == Append(c[contract_id].events, Event("ownership_transferred", "seller"))
             c2 == [c EXCEPT ![contract_id].events = events,
                             ![contract_id].history_hash = _history_hash(events)]
         IN Return(c2, e,
                   _save(c2, e) \o _append_log([contract_id |-> contract_id,
                                                type |-> "ownership_transfer"]),
                   "ok")

\* the files after one write
Write(disk, w) ==
    IF w.file = "contracts" THEN [disk EXCEPT !.c = w.val]
    ELSE IF w.file = "escrow" THEN [disk EXCEPT !.e = w.val]
    ELSE [disk EXCEPT !.l = Append(disk.l, w.val)]

\* the files after the first n of the writes
RECURSIVE ApplyWrites(_, _, _)
ApplyWrites(disk, writes, n) ==
    IF n = 0 THEN disk
    ELSE ApplyWrites(Write(disk, Head(writes)), Tail(writes), n - 1)

\* ContractManager._load, on what the files hold
_load(disk) == [c |-> disk.c, e |-> disk.e]

\* One call of an operation that ends in r.  cut is the number of file writes
\* made: all of them when the call returns, fewer when the process dies in
\* between, and then a fresh ContractManager loads the files.
RunBounded(op, r, max_events, max_log) ==
    /\ Len(contract_log) < max_log
    /\ \A id \in DOMAIN contracts : Len(contracts[id].events) < max_events
    /\ \E cut \in 0..Len(r.writes) :
         LET disk == ApplyWrites([c |-> contracts_json, e |-> escrow_json, l |-> contract_log],
                                 r.writes, cut)
         IN /\ contracts_json' = disk.c
            /\ escrow_json' = disk.e
            /\ contract_log' = disk.l
            /\ IF cut = Len(r.writes)
               THEN /\ contracts' = r.c
                    /\ escrow' = r.e
                    /\ contract_op' = [op |-> op, result |-> r.result]
               ELSE /\ contracts' = _load(disk).c
                    /\ escrow' = _load(disk).e
                    /\ contract_op' = [op |-> op, result |-> "crash"]
    /\ UNCHANGED <<race_vars, goal_vars, anchor_vars, keys_vars, presence_vars, heartbeat_vars, atlas_vars, rules_vars, inbox_vars, now, outbox_vars, task_vars, accord_vars>>

Run(op, r) == RunBounded(op, r, MaxContractEvents, MaxContractLog)

ListAgent(id, contract_type, total_periods) ==
    /\ id \notin DOMAIN contracts        \* _generate_contract_id()
    /\ Run("list_agent", list_agent(contracts, escrow, id, contract_type, total_periods))

MakeOffer(id) == Run("make_offer", make_offer(contracts, escrow, id))
AcceptOffer(id) == Run("accept_offer", accept_offer(contracts, escrow, id))
RejectOffer(id) == Run("reject_offer", reject_offer(contracts, escrow, id))
FundEscrow(id, amount) == Run("fund_escrow", fund_escrow(contracts, escrow, id, amount))
ReleaseEscrow(id, to) == Run("release_escrow", release_escrow(contracts, escrow, id, to))
Activate(id) == Run("activate", activate(contracts, escrow, id))
Renew(id) == Run("renew", renew(contracts, escrow, id))
Expire(id) == Run("expire", expire(contracts, escrow, id))
Breach(id, by) == Run("breach", breach(contracts, escrow, id, by))
Terminate(id, by) == Run("terminate", terminate(contracts, escrow, id, by))
Settle(id) == Run("settle", settle(contracts, escrow, id))

NextContracts ==
    \/ \E id \in ContractIds : ListAgent(id, "rent", DefaultTotalPeriods)
    \/ \E id \in ContractIds : MakeOffer(id)
    \/ \E id \in ContractIds : AcceptOffer(id)
    \/ \E id \in ContractIds : RejectOffer(id)
    \/ \E id \in ContractIds, amount \in EscrowAmounts : FundEscrow(id, amount)
    \/ \E id \in ContractIds, to \in Parties : ReleaseEscrow(id, to)
    \/ \E id \in ContractIds : Activate(id)
    \/ \E id \in ContractIds : Renew(id)
    \/ \E id \in ContractIds : Expire(id)
    \/ \E id \in ContractIds, by \in Parties : Breach(id, by)
    \/ \E id \in ContractIds, by \in Parties : Terminate(id, by)
    \/ \E id \in ContractIds : Settle(id)

\* the operations that go through _transition, and the state each asks for
TransitionOps == {"make_offer", "accept_offer", "reject_offer", "activate", "renew",
                  "expire", "breach", "terminate", "settle"}

TargetOf(op) ==
    CASE op = "make_offer"   -> "offered"
      [] op = "accept_offer" -> "accepted"
      [] op = "reject_offer" -> "listed"
      [] op = "activate"     -> "active"
      [] op = "renew"        -> "renewed"
      [] op = "expire"       -> "expired"
      [] op = "breach"       -> "breached"
      [] op = "terminate"    -> "terminated"
      [] op = "settle"       -> "settled"

Call(op, c, e, id, by) ==
    CASE op = "make_offer"   -> make_offer(c, e, id)
      [] op = "accept_offer" -> accept_offer(c, e, id)
      [] op = "reject_offer" -> reject_offer(c, e, id)
      [] op = "activate"     -> activate(c, e, id)
      [] op = "renew"        -> renew(c, e, id)
      [] op = "expire"       -> expire(c, e, id)
      [] op = "breach"       -> breach(c, e, id, by)
      [] op = "terminate"    -> terminate(c, e, id, by)
      [] op = "settle"       -> settle(c, e, id)

\* C3: in every reachable state, a contract operation whose target state is
\* not allowed from the contract's current state returns an error, writes
\* nothing, and leaves the contract's state, events and history_hash as they
\* were; and whenever an operation changes the state, the change is an edge
\* of VALID_TRANSITIONS.
C3_DisallowedRefused ==
    \A id \in DOMAIN contracts, op \in TransitionOps, by \in Parties :
        LET r == Call(op, contracts, escrow, id, by)
            cur == contracts[id].state
        IN /\ TargetOf(op) \notin allowed_from(cur) =>
                 /\ r.result = "error"
                 /\ r.writes = <<>>
                 /\ r.c[id].state = cur
                 /\ r.c[id].events = contracts[id].events
                 /\ r.c[id].history_hash = contracts[id].history_hash
           /\ r.c[id].state # cur => r.c[id].state \in allowed_from(cur)

\* an operation was refused on a contract from whose state its target is not
\* allowed
C3_Witness ==
    /\ contract_op.op \in TransitionOps
    /\ contract_op.result = "error"
    /\ \E id \in DOMAIN contracts :
           /\ TargetOf(contract_op.op) \notin allowed_from(contracts[id].state)
           /\ Len(contracts[id].events) >= 3

\* C7: a contract in state settled stays settled in every step, whatever
\* operation runs and wherever it stops.
C7_SettledTerminal ==
    [][\A id \in DOMAIN contracts :
           contracts[id].state = "settled" =>
               /\ id \in DOMAIN contracts'
               /\ contracts'[id].state = "settled"]_vars

\* a transition was asked of a settled contract and refused
C7_Witness ==
    /\ contract_op.op \in TransitionOps
    /\ contract_op.result = "error"
    /\ \E id \in DOMAIN contracts : contracts[id].state = "settled"

\* C9: whenever contracts.json holds a contract as settled and escrow.json
\* holds an escrow for it, that escrow is released.
C9_SettledEscrowReleased ==
    \A id \in DOMAIN contracts_json :
        (contracts_json[id].state = "settled" /\ id \in DOMAIN escrow_json)
            => escrow_json[id].released

\* what release_escrow returns on success: release_amount is the funded
\* amount less the penalty it stored
release_info(c, e, contract_id, to_address) ==
    LET rel == release_escrow(c, e, contract_id, to_address)
    IN [released_to |-> to_address,
        amount_rtc |-> e[contract_id].amount_rtc - rel.e[contract_id].penalty_deducted,
        penalty_deducted |-> rel.e[contract_id].penalty_deducted]

Breached(ctr) == \E i \in 1..Len(ctr.events) : ctr.events[i].type = "breached"

\* C23: a settle that succeeds on a contract with an unreleased escrow
\* releases that escrow to the seller; the penalty stored is
\* amount_rtc * penalty_pct / 100 when the contract's events hold a breach
\* and 0 otherwise, and the amount paid out plus the penalty is the funded
\* amount.
C23_SettlePaysSellerLessPenalty ==
    \A id \in DOMAIN contracts :
        LET r == settle(contracts, escrow, id)
        IN (r.result = "ok" /\ id \in DOMAIN escrow /\ ~escrow[id].released) =>
               LET paid == release_info(r.c, escrow, id, "seller")
                   penalty == IF Breached(contracts[id])
                              THEN (escrow[id].amount_rtc * PENALTY_PCT) \div 100
                              ELSE 0
               IN /\ r.e[id].released
                  /\ r.e[id].released_to = "seller"
                  /\ r.e[id].penalty_deducted = penalty
                  /\ r.e[id].amount_rtc = escrow[id].amount_rtc
                  /\ paid.penalty_deducted = penalty
                  /\ paid.amount_rtc + penalty = escrow[id].amount_rtc

\* C23 witness: settle has returned for a contract that was breached, and
\* its escrow is released to the seller with a penalty deducted.
C23_Witness ==
    /\ contract_op = [op |-> "settle", result |-> "ok"]
    /\ \E id \in DOMAIN contracts :
           /\ contracts[id].state = "settled"
           /\ Breached(contracts[id])
           /\ id \in DOMAIN escrow
           /\ escrow[id].released /\ escrow[id].released_to = "seller"
           /\ escrow[id].penalty_deducted > 0

\* C34: once the escrow of a contract is released it stays released, so that
\* every later release_escrow for the contract is refused and nothing is
\* paid out a second time, whatever operation runs next.
C34_EscrowPaidOnce ==
    [][\A id \in DOMAIN escrow :
           escrow[id].released =>
               /\ id \in DOMAIN escrow'
               /\ escrow'[id].released
               /\ release_escrow(contracts', escrow', id, "seller").result = "error"]_vars

\* what holds: release_escrow on a released escrow returns an error and
\* writes nothing
ReleasedEscrowRefused ==
    \A id \in DOMAIN escrow, to \in Parties :
        escrow[id].released =>
            LET r == release_escrow(contracts, escrow, id, to)
            IN r.result = "error" /\ r.writes = <<>> /\ r.e = escrow

\* C35: a contract in state active has a funded escrow record.
C35_ActiveOnlyWhenFunded ==
    \A id \in DOMAIN contracts :
        contracts[id].state = "active" => id \in DOMAIN escrow

\* C37: the history_hash of every contract, in memory and in contracts.json,
\* is the hash of its events list; and in every reachable state an operation
\* that makes a transition leaves the events it found in place, appends
\* exactly one event, and leaves a history_hash different from the one
\* before.
C37_HashFollowsEvents ==
    /\ \A id \in DOMAIN contracts :
           contracts[id].history_hash = _history_hash(contracts[id].events)
    /\ \A id \in DOMAIN contracts_json :
           contracts_json[id].history_hash = _history_hash(contracts_json[id].events)
    /\ \A id \in DOMAIN contracts, op \in TransitionOps, by \in Parties :
           LET r == Call(op, contracts, escrow, id, by)
               before == contracts[id].events
               after == r.c[id].events
           IN r.result = "ok" =>
                  /\ Len(after) = Len(before) + 1
                  /\ SubSeq(after, 1, Len(before)) = before
                  /\ after[Len(after)].type = TargetOf(op)
                  /\ r.c[id].history_hash = _history_hash(after)
                  /\ r.c[id].history_hash # contracts[id].history_hash

\* a breach has been recorded with its evidence, after earlier transitions
C37_Witness ==
    /\ contract_op = [op |-> "breach", result |-> "ok"]
    /\ \E id \in DOMAIN contracts :
           /\ Len(contracts[id].events) >= 4
           /\ contracts[id].events[Len(contracts[id].events)].evidence = "ev"
           /\ contracts[id].history_hash = _history_hash(contracts[id].events)

(***************************************************************************)
(* Ownership transfer of buy and lease_to_own contracts.                   *)
(***************************************************************************)
MaxLeaseEvents == 7     \* a buy / lease_to_own contract holds at most this many events
MaxLeaseLog == 6        \* contract_log.jsonl holds at most this many entries

OwnableTypes == {"buy", "lease_to_own"}
TotalPeriods == {1, 2}
LeaseOps == {"make_offer", "accept_offer", "activate", "renew", "expire", "settle"}

ListOwnable(id, contract_type, total_periods) ==
    /\ id \notin DOMAIN contracts
    /\ RunBounded("list_agent",
                  list_agent(contracts, escrow, id, contract_type, total_periods),
                  MaxLeaseEvents, MaxLeaseLog)

LeaseOp(op, id) ==
    RunBounded(op, Call(op, contracts, escrow, id, "buyer"), MaxLeaseEvents, MaxLeaseLog)

TransferOwnership(id) ==
    RunBounded("transfer_ownership", transfer_ownership(contracts, escrow, id),
               MaxLeaseEvents, MaxLeaseLog)

NextLease ==
    \/ \E id \in ContractIds, contract_type \in OwnableTypes, total_periods \in TotalPeriods :
           ListOwnable(id, contract_type, total_periods)
    \/ \E op \in LeaseOps, id \in ContractIds : LeaseOp(op, id)
    \/ \E id \in ContractIds : TransferOwnership(id)

\* the ownership transfers recorded in a contract's events
Transfers(ctr) ==
    Cardinality({i \in 1..Len(ctr.events) : ctr.events[i].type = "ownership_transferred"})

\* C24: transfer_ownership on a lease_to_own contract returns ok only if
\* completed_periods >= total_periods; otherwise it returns an error, writes
\* no file and leaves the contract without a new ownership_transferred event.
C24_NoEarlyTransfer ==
    \A id \in DOMAIN contracts :
        contracts[id].type = "lease_to_own" =>
            LET r == transfer_ownership(contracts, escrow, id)
                lto == contracts[id].lease_to_own
            IN /\ r.result = "ok" => lto.completed_periods >= lto.total_periods
               /\ lto.completed_periods < lto.total_periods =>
                      /\ r.result = "error"
                      /\ r.writes = <<>>
                      /\ r.c = contracts
                      /\ Transfers(r.c[id]) = Transfers(contracts[id])

\* in the files too, a lease_to_own contract holds an ownership transfer only
\* with its periods completed
NoEarlyTransferOnDisk ==
    \A id \in DOMAIN contracts_json :
        (contracts_json[id].type = "lease_to_own" /\ Transfers(contracts_json[id]) > 0) =>
            contracts_json[id].lease_to_own.completed_periods
                >= contracts_json[id].lease_to_own.total_periods

\* C24 witness: one lease_to_own contract has completed its periods and had
\* its ownership transferred by a call that returned ok.
C24_Witness ==
    /\ contract_op = [op |-> "transfer_ownership", result |-> "ok"]
    /\ \E id \in DOMAIN contracts :
           /\ contracts[id].type = "lease_to_own"
           /\ contracts[id].lease_to_own.completed_periods
                  >= contracts[id].lease_to_own.total_periods
           /\ Transfers(contracts[id]) = 1

\* a transfer was refused for a lease_to_own contract in a state that allows
\* transfers, its periods not completed
C24_RefusedWitness ==
    /\ contract_op = [op |-> "transfer_ownership", result |-> "error"]
    /\ \E id \in DOMAIN contracts :
           /\ contracts[id].type = "lease_to_own"
           /\ contracts[id].state \in {"active", "settled"}
           /\ contracts[id].lease_to_own.completed_periods
                  < contracts[id].lease_to_own.total_periods

MaxLeaseSteps == 7      \* a completion is looked for among this many operations

\* some sequence of at most n operations, each returning ok, leads from c to
\* contracts on which transfer_ownership returns ok
RECURSIVE Completable(_, _, _, _)
Completable(c, e, id, n) ==
    \/ transfer_ownership(c, e, id).result = "ok"
    \/ /\ n > 0
       /\ \E op \in TransitionOps :
              LET r == Call(op, c, e, id, "buyer")
              IN r.result = "ok" /\ Completable(r.c, r.e, id, n - 1)

\* C40: a lease_to_own contract with total_periods > 1 can be completed:
\* from its listing on, some sequence of operations that all succeed ends
\* with completed_periods >= total_periods and a transfer_ownership that
\* returns ok.
C40_LeaseCanComplete ==
    \A id \in DOMAIN contracts :
        (/\ contracts[id].type = "lease_to_own"
         /\ contracts[id].lease_to_own.total_periods > 1
         /\ contracts[id].state = "listed") =>
            Completable(contracts, escrow, id, MaxLeaseSteps)

\* what holds: a lease_to_own contract of one period can be completed from
\* its listing, and one of more periods never has more than one period
\* completed nor an ownership transfer
SinglePeriodLeaseCompletes ==
    \A id \in DOMAIN contracts :
        (/\ contracts[id].type = "lease_to_own"
         /\ contracts[id].lease_to_own.total_periods = 1
         /\ contracts[id].state = "listed") =>
            Completable(contracts, escrow, id, MaxLeaseSteps)

AtMostOnePeriodCompleted ==
    \A id \in DOMAIN contracts :
        contracts[id].type = "lease_to_own" =>
            /\ contracts[id].lease_to_own.completed_periods <= 1
            /\ contracts[id].lease_to_own.total_periods > 1 => Transfers(contracts[id]) = 0

(***************************************************************************)
(* Accords (accord.py).  AccordManager keeps nothing in memory: every      *)
(* operation loads accords.json, changes one accord, writes the file back  *)
(* and, for the local build_* operations, appends to accord_log.jsonl      *)
(* afterwards.  As for contracts, an operation is a function to the new    *)
(* file content, its writes in order, and what it returns; a run may stop  *)
(* after any number of its writes.                                         *)
(***************************************************************************)
MaxAccordEvents == 3   \* an accord holds at most this many events
MaxAccordLog == 3      \* accord_log.jsonl holds at most this many entries

AccordIds == {"acc_1"}
AccordStates == {"proposed", "active", "challenged", "dissolved"}
EnvelopeActions == {"propose", "accept", "pushback", "acknowledge", "dissolve", "other"}

\* sha256("genesis:" + accord_id)
Genesis(accord_id) == << [event |-> "genesis", ts |-> 0] >>

\* AccordManager._compute_history_hash: SHA-256 of prev_hash:new_event:ts,
\* taken to be collision-free: the digest stands for the chain of
\* (event, ts) it was computed from
_compute_history_hash(accord, new_event, ts) ==
    Append(accord.history_hash, [event |-> new_event, ts |-> ts])

AReturn(a, writes, result) == [a |-> a, writes |-> writes, result |-> result]

ANone(a) == AReturn(a, <<>>, "None")

_save_accords(a) == << [file |-> "accords", val |-> a] >>

_append_accord_log(action, accord_id) ==
    << [file |-> "log", val |-> [action |-> action, accord_id |-> accord_id]] >>

\* state, hash and events of an accord after an event that chains the hash
Advance(accord, state, summary, type, ts) ==
    [state |-> state,
     history_hash |-> _compute_history_hash(accord, summary, ts),
     events |-> Append(accord.events, type)]

\* AccordManager.build_proposal
build_proposal(a, accord_id, ts) ==
    LET a2 == Put(a, accord_id, [state |-> "proposed",
                                 history_hash |-> Genesis(accord_id),
                                 events |-> <<>>])
    IN AReturn(a2, _save_accords(a2) \o _append_accord_log("propose", accord_id), "envelope")

\* AccordManager.build_acceptance
build_acceptance(a, accord_id, ts) ==
    LET a2 == Put(a, accord_id,
                  [state |-> "active",
                   history_hash |-> _compute_history_hash(
                       [history_hash |-> Genesis(accord_id)], "accepted_by", ts),
                   events |-> << "accepted" >>])
    IN AReturn(a2, _save_accords(a2) \o _append_accord_log("accept", accord_id), "envelope")

\* AccordManager.finalize_accepted
finalize_accepted(a, accord_id, ts) ==
    IF accord_id \notin DOMAIN a THEN ANone(a)
    ELSE LET a2 == [a EXCEPT ![accord_id] = Advance(@, "active", "accepted_by", "accepted", ts)]
         IN AReturn(a2, _save_accords(a2), "None")

\* AccordManager.build_pushback
build_pushback(a, accord_id, ts) ==
    IF accord_id \notin DOMAIN a \/ a[accord_id].state # "active" THEN ANone(a)
    ELSE LET a2 == [a EXCEPT ![accord_id] = Advance(@, "challenged", "pushback", "pushback", ts)]
         IN AReturn(a2, _save_accords(a2) \o _append_accord_log("pushback", accord_id), "envelope")

\* AccordManager.build_acknowledgment
build_acknowledgment(a, accord_id, ts) ==
    IF accord_id \notin DOMAIN a THEN ANone(a)
    ELSE LET a2 == [a EXCEPT ![accord_id] = Advance(@, "active", "ack", "acknowledgment", ts)]
         IN AReturn(a2, _save_accords(a2) \o _append_accord_log("acknowledge", accord_id), "envelope")

\* AccordManager.build_dissolution
build_dissolution(a, accord_id, ts) ==
    IF accord_id \notin DOMAIN a \/ a[accord_id].state = "dissolved" THEN ANone(a)
    ELSE LET a2 == [a EXCEPT ![accord_id] = Advance(@, "dissolved", "dissolved", "dissolved", ts)]
         IN AReturn(a2, _save_accords(a2) \o _append_accord_log("dissolve", accord_id), "envelope")

\* AccordManager.log_pushback
log_pushback(a, accord_id) ==
    AReturn(a, _append_accord_log("pushback_logged", accord_id), "None")

\* AccordManager.update_history_hash
update_history_hash(a, accord_id, ts) ==
    IF accord_id \notin DOMAIN a THEN ANone(a)
    ELSE LET a2 == [a EXCEPT ![accord_id] =
                        Advance(@, @.state, "interaction", "history_updated", ts)]
         IN AReturn(a2, _save_accords(a2), "hash")

\* verify_history that accepts every hash the accord ever had
verify_history_any_earlier(a, accord_id, claimed_hash) ==
    IF accord_id \notin DOMAIN a THEN AReturn(a, <<>>, "False")
    ELSE AReturn(a, <<>>,
                 IF claimed_hash # <<>> /\ Len(claimed_hash) <= Len(a[accord_id].history_hash)
                    /\ SubSeq(a[accord_id].history_hash, 1, Len(claimed_hash)) = claimed_hash
                 THEN "True" ELSE "False")

\* AccordManager.verify_history
verify_history(a, accord_id, claimed_hash) ==
    IF accord_id \notin DOMAIN a THEN AReturn(a, <<>>, "False")
    ELSE AReturn(a, <<>>, IF a[accord_id].history_hash = claimed_hash THEN "True" ELSE "False")

\* the hashes a caller may claim: the current one, earlier ones, and "" (<<>>)
ClaimedHashes ==
    {<<>>} \cup UNION { {SubSeq(accords[id].history_hash, 1, n) :
                            n \in 1..Len(accords[id].history_hash)} : id \in DOMAIN accords }
           \cup {Genesis(id) : id \in AccordIds}

\* AccordManager.process_accord_envelope
process_accord_envelope(a, action, accord_id, ts) ==
    IF action = "propose"
    THEN LET a2 == Put(a, accord_id, [state |-> "proposed",
                                      history_hash |-> Genesis(accord_id),
                                      events |-> << "received_proposal" >>])
         IN AReturn(a2, _save_accords(a2), "proposal_received")
    ELSE IF action = "accept"
    THEN LET r == finalize_accepted(a, accord_id, ts)
         IN AReturn(r.a, r.writes, "acceptance_received")
    ELSE IF action = "pushback"
    THEN IF accord_id \in DOMAIN a
         THEN LET a2 == [a EXCEPT ![accord_id] =
                             Advance(@, "challenged", "pushback", "pushback_received", ts)]
              IN AReturn(a2, _save_accords(a2), "pushback_received")
         ELSE AReturn(a, <<>>, "pushback_received")
    ELSE IF action = "acknowledge"
    THEN IF accord_id \in DOMAIN a
         THEN LET a2 == [a EXCEPT ![accord_id] =
                             Advance(@, "active", "ack", "acknowledgment_received", ts)]
              IN AReturn(a2, _save_accords(a2), "acknowledgment_received")
         ELSE AReturn(a, <<>>, "acknowledgment_received")
    ELSE IF action = "dissolve"
    THEN IF accord_id \in DOMAIN a
         THEN LET a2 == [a EXCEPT ![accord_id].state = "dissolved",
                                  ![accord_id].events = Append(@, "dissolved_by_peer")]
              IN AReturn(a2, _save_accords(a2), "dissolution_received")
         ELSE AReturn(a, <<>>, "dissolution_received")
    ELSE AReturn(a, <<>>, "unknown")

\* the files after one write
WriteAccord(disk, w) ==
    IF w.file = "accords" THEN [disk EXCEPT !.a = w.val]
    ELSE [disk EXCEPT !.l = Append(disk.l, w.val)]

RECURSIVE ApplyAccordWrites(_, _, _)
ApplyAccordWrites(disk, writes, n) ==
    IF n = 0 THEN disk
    ELSE ApplyAccordWrites(WriteAccord(disk, Head(writes)), Tail(writes), n - 1)

\* One call of an operation that ends in r; cut is the number of file writes
\* made before the call returned or the process died.
RunAccord(op, r) ==
    /\ Len(accord_log) < MaxAccordLog
    /\ \A id \in DOMAIN accords : Len(accords[id].events) < MaxAccordEvents
    /\ \E cut \in 0..Len(r.writes) :
         LET disk == ApplyAccordWrites([a |-> accords, l |-> accord_log], r.writes, cut)
         IN /\ accords' = disk.a
            /\ accord_log' = disk.l
            /\ accord_op' = [op |-> op,
                             result |-> IF cut = Len(r.writes) THEN r.result ELSE "crash"]
    /\ UNCHANGED <<race_vars, goal_vars, anchor_vars, keys_vars, presence_vars, heartbeat_vars, atlas_vars, rules_vars, inbox_vars, now, outbox_vars, task_vars, contract_vars>>

BuildProposal(id) ==
    /\ id \notin DOMAIN accords         \* _generate_accord_id()
    /\ RunAccord("build_proposal", build_proposal(accords, id, now))

BuildAcceptance(id) == RunAccord("build_acceptance", build_acceptance(accords, id, now))
FinalizeAccepted(id) == RunAccord("finalize_accepted", finalize_accepted(accords, id, now))
BuildPushback(id) == RunAccord("build_pushback", build_pushback(accords, id, now))
BuildAcknowledgment(id) ==
    RunAccord("build_acknowledgment", build_acknowledgment(accords, id, now))
BuildDissolution(id) == RunAccord("build_dissolution", build_dissolution(accords, id, now))
LogPushback(id) == RunAccord("log_pushback", log_pushback(accords, id))
UpdateHistoryHash(id) ==
    RunAccord("update_history_hash", update_history_hash(accords, id, now))
ProcessAccordEnvelope(action, id) ==
    RunAccord("process_accord_envelope", process_accord_envelope(accords, action, id, now))
VerifyHistory(id, claimed_hash) ==
    RunAccord("verify_history", verify_history(accords, id, claimed_hash))

NextAccords ==
    \/ \E id \in AccordIds : BuildProposal(id)
    \/ \E id \in AccordIds : BuildAcceptance(id)
    \/ \E id \in AccordIds : FinalizeAccepted(id)
    \/ \E id \in AccordIds : BuildPushback(id)
    \/ \E id \in AccordIds : BuildAcknowledgment(id)
    \/ \E id \in AccordIds : BuildDissolution(id)
    \/ \E id \in AccordIds : LogPushback(id)
    \/ \E id \in AccordIds : UpdateHistoryHash(id)
    \/ \E action \in EnvelopeActions, id \in AccordIds : ProcessAccordEnvelope(action, id)
    \/ \E id \in AccordIds, claimed_hash \in ClaimedHashes : VerifyHistory(id, claimed_hash)

\* the edges of the accord state machine
AccordEdges ==
    {<<"proposed", "active">>, <<"active", "challenged">>, <<"challenged", "active">>,
     <<"proposed", "dissolved">>, <<"active", "dissolved">>, <<"challenged", "dissolved">>}

\* C4: in every step, an accord whose state changes moves along one of
\* proposed -> active, active -> challenged, challenged -> active, or from
\* a state other than dissolved to dissolved.
C4_AccordEdgesOnly ==
    [][\A id \in DOMAIN accords :
           (id \in DOMAIN accords' /\ accords'[id].state # accords[id].state)
               => <<accords[id].state, accords'[id].state>> \in AccordEdges]_vars

\* C6: in every step, an accord that is dissolved is still dissolved
\* afterwards.
C6_DissolvedStays ==
    [][\A id \in DOMAIN accords :
           accords[id].state = "dissolved" =>
               (id \in DOMAIN accords' /\ accords'[id].state = "dissolved")]_vars

\* what holds of build_pushback: it returns an envelope for an active
\* accord only; for every other accord it returns None and writes nothing
PushbackFromActiveOnly ==
    \A id \in DOMAIN accords :
        LET r == build_pushback(accords, id, now)
        IN IF accords[id].state = "active"
           THEN r.result = "envelope" /\ r.a[id].state = "challenged"
           ELSE r = ANone(accords)

\* C20: build_pushback on a dissolved accord returns None and changes
\* nothing (no file written, the accords as they were); on an accord that
\* is active or challenged it returns a pushback envelope.
C20_PushbackByState ==
    \A id \in DOMAIN accords :
        LET r == build_pushback(accords, id, now)
        IN /\ accords[id].state = "dissolved" =>
                  (r.result = "None" /\ r.writes = <<>> /\ r.a = accords)
           /\ accords[id].state \in {"active", "challenged"} =>
                  r.result = "envelope"

\* hash h2 is hash h1 chained with one more event
ChainedFrom(h2, h1) == Len(h2) = Len(h1) + 1 /\ SubSeq(h2, 1, Len(h1)) = h1

\* C21: in every step that changes the state of an accord, made by a local
\* build_* operation or by processing a received envelope, the accord's
\* events gain one event and its history_hash becomes a new value chained
\* from the previous hash.
C21_StateChangeChainsHash ==
    [][\A id \in DOMAIN accords :
           (id \in DOMAIN accords' /\ accords'[id].state # accords[id].state) =>
               /\ Len(accords'[id].events) = Len(accords[id].events) + 1
               /\ SubSeq(accords'[id].events, 1, Len(accords[id].events)) = accords[id].events
               /\ ChainedFrom(accords'[id].history_hash, accords[id].history_hash)]_vars

\* C36: in every step, each accord is still there and its events list is
\* the list it had with zero or more events appended.
C36_EventsAppendOnly ==
    [][\A id \in DOMAIN accords :
           /\ id \in DOMAIN accords'
           /\ Len(accords'[id].events) >= Len(accords[id].events)
           /\ SubSeq(accords'[id].events, 1, Len(accords[id].events)) = accords[id].events]_vars

\* what holds: the operations other than build_acceptance and the processing
\* of a propose envelope leave the recorded events in place
EventsKeptByOthers ==
    \A id \in DOMAIN accords :
        \A r \in {finalize_accepted(accords, id, now), build_pushback(accords, id, now),
                  build_acknowledgment(accords, id, now), build_dissolution(accords, id, now),
                  update_history_hash(accords, id, now)}
               \cup {process_accord_envelope(accords, action, id, now) :
                         action \in EnvelopeActions \ {"propose"}} :
            /\ Len(r.a[id].events) >= Len(accords[id].events)
            /\ SubSeq(r.a[id].events, 1, Len(accords[id].events)) = accords[id].events

\* C22: verify_history returns true exactly when the accord is known and
\* the claimed hash equals its current history_hash, false otherwise, and it
\* writes no file and leaves every accord's state, events and hash as they
\* were.
C22_VerifyHistoryExactAndPure ==
    \A id \in AccordIds : \A claimed \in ClaimedHashes :
        LET r == verify_history(accords, id, claimed)
        IN /\ r.result = "True" <=>
                  (id \in DOMAIN accords /\ accords[id].history_hash = claimed)
           /\ r.result \in {"True", "False"}
           /\ r.writes = <<>>
           /\ r.a = accords

\* C22 witness: verify_history has just returned false for an accord whose
\* hash has advanced past its genesis, so an earlier hash of it exists that
\* is not the current one.
C22_Witness ==
    /\ accord_op = [op |-> "verify_history", result |-> "False"]
    /\ \E id \in DOMAIN accords : Len(accords[id].history_hash) >= 2

\* the hash of an accord after two more events, chained at times t1 and t2
HashAfter(accord, e1, t1, e2, t2) ==
    _compute_history_hash([history_hash |-> _compute_history_hash(accord, e1, t1)], e2, t2)

EventSummaries == {"pushback", "ack", "interaction"}

\* C25: the history_hash after a sequence of events depends on the events
\* and their order alone: the same two events chained onto an accord give
\* the same hash whatever the times they are applied at, and the two events
\* in the other order give a different hash.
C25_HashOfEventSequence ==
    \A id \in DOMAIN accords : \A e1, e2 \in EventSummaries :
        /\ \A t1, t2, u1, u2 \in 0..MaxTime :
               HashAfter(accords[id], e1, t1, e2, t2) = HashAfter(accords[id], e1, u1, e2, u2)
        /\ e1 # e2 =>
               \A t \in 0..MaxTime :
                   HashAfter(accords[id], e1, t, e2, t) # HashAfter(accords[id], e2, t, e1, t)

\* what holds: equal hashes mean equal events at equal times in equal order
HashOfEventsAndTimes ==
    \A id \in DOMAIN accords : \A e1, e2, f1, f2 \in EventSummaries :
        \A t1, t2, u1, u2 \in 0..MaxTime :
            HashAfter(accords[id], e1, t1, e2, t2) = HashAfter(accords[id], f1, u1, f2, u2)
                <=> (e1 = f1 /\ e2 = f2 /\ t1 = u1 /\ t2 = u2)

\* the state of an accord rebuilt from accord_log.jsonl alone
RECURSIVE RebuildAccord(_, _, _)
RebuildAccord(log, accord_id, state) ==
    IF log = <<>> THEN state
    ELSE LET entry == Head(log)
             next == IF entry.accord_id # accord_id THEN state
                     ELSE CASE entry.action = "propose"     -> "proposed"
                            [] entry.action = "accept"      -> "active"
                            [] entry.action = "pushback"    -> "challenged"
                            [] entry.action = "acknowledge" -> "active"
                            [] entry.action = "dissolve"    -> "dissolved"
                            [] OTHER                        -> state
         IN RebuildAccord(Tail(log), accord_id, next)

\* the state of a contract rebuilt from contract_log.jsonl alone
RECURSIVE RebuildContract(_, _, _)
RebuildContract(log, contract_id, state) ==
    IF log = <<>> THEN state
    ELSE RebuildContract(Tail(log), contract_id,
                         IF Head(log).contract_id = contract_id THEN Head(log).to ELSE state)

\* C8: at every point a run can stop, the state rebuilt from the log equals
\* the visible state: each accord in accords.json is in the state its log
\* entries give, and each contract in contracts.json is in the state its log
\* entries give (listed when it has none).
C8_LogMatchesVisible ==
    /\ \A id \in DOMAIN accords :
           RebuildAccord(accord_log, id, "none") = accords[id].state
    /\ \A id \in DOMAIN contracts_json :
           RebuildContract(contract_log, id, "listed") = contracts_json[id].state

(***************************************************************************)
(* Rules engine (rules.py) with the values component's boundaries          *)
(* (values.py) wired in as values_mgr.                                     *)
(*                                                                         *)
(* Rule names and agent ids are texts; the model writes a text as the      *)
(* sequence of its pieces so that joining texts is concatenation.          *)
(***************************************************************************)
COOLDOWN_S == 60

MaxClock == 90          \* Wait stops once the clock would pass this
TimeStep == 30          \* seconds that pass in one Wait
Epoch == 1000           \* time.time() when the engine is constructed
MaxRulesLog == 2        \* process is not called once rules_log.jsonl is this long

time == Epoch + now

RuleNames == { <<"greet">>, <<"greet", ":", "vip">> }
SenderIds == { <<"bcn_1">>, <<"vip", ":", "bcn_1">> }
EventKinds == {"hello", "bounty"}
Texts == { <<>>, <<"cheap", "spam">> }
Events == [kind : EventKinds, agent_id : SenderIds, text : Texts]

\* ValuesManager._data["boundaries"]: each boundary is a sentence
Boundaries == << <<"no", "spam">> >>

\* the words of the text blob check_boundaries searches (text and kind)
TextBlob(envelope) == {envelope.text[i] : i \in 1..Len(envelope.text)} \cup {envelope.kind}

\* the words of a boundary longer than 3 characters
Keywords(boundary) == {boundary[i] : i \in {j \in 1..Len(boundary) : Len(boundary[j]) > 3}}

\* the first violated boundary, or <<>> (None)
check_boundaries(envelope) ==
    LET hit == {i \in 1..Len(Boundaries) :
                    /\ Keywords(Boundaries[i]) # {}
                    /\ Keywords(Boundaries[i]) \subseteq TextBlob(envelope)}
    IN IF hit = {} THEN <<>>
       ELSE Boundaries[CHOOSE i \in hit : \A j \in hit : i <= j]

BoundaryEnforcement == <<"_boundary_enforcement">>

_match_condition(when, event) ==
    ("kind" \in DOMAIN when) => (event.kind = when.kind)

_cooldown_key(rule_name, agent_id) == rule_name \o <<":">> \o agent_id

_is_cooled_down(cd, rule_name, agent_id, t) ==
    LET key == _cooldown_key(rule_name, agent_id)
        last == IF key \in DOMAIN cd THEN cd[key] ELSE 0
    IN (t - last) < COOLDOWN_S

_mark_fired(cd, rule_name, agent_id, t) ==
    Put(cd, _cooldown_key(rule_name, agent_id), t)

\* the loop of evaluate that stops at the first match
RECURSIVE MatchRules_first_only(_, _, _, _)
MatchRules_first_only(rs, cd, event, t) ==
    IF rs = <<>> THEN <<>>
    ELSE LET rule == Head(rs)
         IN IF \/ rule.disabled
               \/ ~_match_condition(rule.when, event)
               \/ _is_cooled_down(cd, rule.name, event.agent_id, t)
            THEN MatchRules_first_only(Tail(rs), cd, event, t)
            ELSE <<[rule |-> rule.name, action |-> rule.then]>>

\* the loop of evaluate over self._rules
RECURSIVE MatchRules(_, _, _, _)
MatchRules(rs, cd, event, t) ==
    IF rs = <<>> THEN <<>>
    ELSE LET rule == Head(rs)
             rest == MatchRules(Tail(rs), cd, event, t)
         IN IF \/ rule.disabled
               \/ ~_match_condition(rule.when, event)
               \/ _is_cooled_down(cd, rule.name, event.agent_id, t)
            THEN rest
            ELSE <<[rule |-> rule.name, action |-> rule.then]>> \o rest

\* evaluate that goes on to the user rules after a boundary match
evaluate_boundary_then_rules(rs, cd, event, t) ==
    IF check_boundaries(event) # <<>>
    THEN <<[rule |-> BoundaryEnforcement, action |-> "log"]>> \o MatchRules(rs, cd, event, t)
    ELSE MatchRules(rs, cd, event, t)

evaluate(rs, cd, event, t) ==
    IF check_boundaries(event) # <<>>
    THEN <<[rule |-> BoundaryEnforcement, action |-> "log"]>>
    ELSE MatchRules(rs, cd, event, t)

\* execute: a log action appends to rules_log.jsonl, the others only return
execute(log, action, event, t) ==
    IF action = "log"
    THEN [log |-> Append(log, [ts |-> t, event_kind |-> event.kind]), action |-> "log"]
    ELSE [log |-> log, action |-> action]

RECURSIVE ProcessLoop(_, _, _, _)
ProcessLoop(st, matches, event, t) ==
    IF matches = <<>> THEN st
    ELSE LET match == Head(matches)
             done == execute(st.rules_log, match.action, event, t)
         IN ProcessLoop([cooldowns |-> _mark_fired(st.cooldowns, match.rule, event.agent_id, t),
                         rules_log |-> done.log,
                         results |-> Append(st.results,
                                            [rule |-> match.rule, action |-> done.action])],
                        Tail(matches), event, t)

process(rs, cd, log, event, t) ==
    ProcessLoop([cooldowns |-> cd, rules_log |-> log, results |-> <<>>],
                evaluate(rs, cd, event, t), event, t)

\* the time each <<rule, agent>> of the results was reported at
RECURSIVE Report(_, _, _, _)
Report(fired, results, agent_id, t) ==
    IF results = <<>> THEN fired
    ELSE Report(Put(fired, <<Head(results).rule, agent_id>>, t), Tail(results), agent_id, t)

Process(event) ==
    /\ Len(rules_log) < MaxRulesLog
    /\ LET r == process(rules, cooldowns, rules_log, event, time)
       IN /\ cooldowns' = r.cooldowns
          /\ rules_log' = r.rules_log
          /\ rule_op' = [event |-> event, results |-> r.results]
          /\ fired_at' = Report(fired_at, r.results, event.agent_id, time)
    /\ UNCHANGED <<race_vars, goal_vars, anchor_vars, keys_vars, presence_vars, heartbeat_vars, atlas_vars, now, rules, inbox_vars, outbox_vars, task_vars, contract_vars, accord_vars>>

SetDisabled(rs, name, flag) ==
    [i \in 1..Len(rs) |-> IF rs[i].name = name THEN [rs[i] EXCEPT !.disabled = flag] ELSE rs[i]]

DisableRule(name) ==
    /\ \E i \in 1..Len(rules) : rules[i].name = name /\ ~rules[i].disabled
    /\ rules' = SetDisabled(rules, name, TRUE)
    /\ UNCHANGED <<race_vars, goal_vars, anchor_vars, keys_vars, presence_vars, heartbeat_vars, atlas_vars, now, cooldowns, rules_log, rule_op, fired_at,
                   inbox_vars, outbox_vars, task_vars, contract_vars, accord_vars>>

EnableRule(name) ==
    /\ \E i \in 1..Len(rules) : rules[i].name = name /\ rules[i].disabled
    /\ rules' = SetDisabled(rules, name, FALSE)
    /\ UNCHANGED <<race_vars, goal_vars, anchor_vars, keys_vars, presence_vars, heartbeat_vars, atlas_vars, now, cooldowns, rules_log, rule_op, fired_at,
                   inbox_vars, outbox_vars, task_vars, contract_vars, accord_vars>>

\* time passes between two calls
Wait ==
    /\ now + TimeStep <= MaxClock
    /\ now' = now + TimeStep
    /\ UNCHANGED <<race_vars, goal_vars, anchor_vars, keys_vars, presence_vars, heartbeat_vars, atlas_vars, rules_vars, inbox_vars, outbox_vars, task_vars, contract_vars, accord_vars>>

NoEvent == [kind |-> "", agent_id |-> <<>>, text |-> <<>>]

InitRules ==
    /\ rules = << [name |-> <<"greet">>, disabled |-> FALSE,
                   when |-> [kind |-> "hello"], then |-> "reply"],
                  [name |-> <<"greet", ":", "vip">>, disabled |-> FALSE,
                   when |-> EmptyMap, then |-> "log"] >>
    /\ cooldowns = EmptyMap
    /\ rules_log = <<>>
    /\ rule_op = [event |-> NoEvent, results |-> <<>>]
    /\ fired_at = EmptyMap

NextRules ==
    \/ Wait
    \/ \E event \in Events : Process(event)
    \/ \E name \in RuleNames : DisableRule(name)
    \/ \E name \in RuleNames : EnableRule(name)

\* the names of the rules process reported for an event
FiredNames(results) == {results[i].rule : i \in 1..Len(results)}

\* the user rules an event would match were there no boundaries
WouldMatch(event) ==
    {i \in 1..Len(rules) : ~rules[i].disabled /\ _match_condition(rules[i].when, event)}

\* C16: for an envelope that violates a boundary, evaluate returns exactly
\* one match, the synthetic _boundary_enforcement rule with a log action, and
\* process executes that match alone: one result, one new rules_log entry,
\* one cooldown entry (the synthetic rule's), and no user rule fired.
C16_BoundaryOnly ==
    \A event \in Events :
        check_boundaries(event) # <<>> =>
            LET r == process(rules, cooldowns, rules_log, event, time)
            IN /\ evaluate(rules, cooldowns, event, time)
                      = <<[rule |-> BoundaryEnforcement, action |-> "log"]>>
               /\ r.results = <<[rule |-> BoundaryEnforcement, action |-> "log"]>>
               /\ r.rules_log = Append(rules_log, [ts |-> time, event_kind |-> event.kind])
               /\ r.cooldowns = Put(cooldowns,
                                    _cooldown_key(BoundaryEnforcement, event.agent_id), time)

\* C16 witness: process has handled a boundary-violating envelope that two
\* enabled user rules, neither in cooldown, would otherwise have matched,
\* and reported the synthetic rule only.
C16_Witness ==
    /\ check_boundaries(rule_op.event) # <<>>
    /\ rule_op.results = <<[rule |-> BoundaryEnforcement, action |-> "log"]>>
    /\ Cardinality(WouldMatch(rule_op.event)) = 2
    /\ \A i \in WouldMatch(rule_op.event) :
           <<rules[i].name, rule_op.event.agent_id>> \notin DOMAIN fired_at
    /\ fired_at = [k \in {<<BoundaryEnforcement, rule_op.event.agent_id>>} |-> time]

\* rule i is enabled and matches the event, yet process does not fire it
Suppressed(i, event) ==
    /\ i \in WouldMatch(event)
    /\ rules[i].name \notin FiredNames(process(rules, cooldowns, rules_log, event, time).results)

\* process reported the rule for the agent less than COOLDOWN_S seconds ago
FiredRecently(rule_name, agent_id) ==
    /\ <<rule_name, agent_id>> \in DOMAIN fired_at
    /\ time - fired_at[<<rule_name, agent_id>>] < COOLDOWN_S

\* what the code does: a match is suppressed exactly when some rule and
\* agent whose cooldown key is the same text fired within the last 60 s
CooldownPerKey ==
    \A event \in Events : \A i \in 1..Len(rules) :
        (check_boundaries(event) = <<>> /\ i \in WouldMatch(event)) =>
            (Suppressed(i, event) <=>
                \E pair \in DOMAIN fired_at :
                    /\ _cooldown_key(pair[1], pair[2])
                           = _cooldown_key(rules[i].name, event.agent_id)
                    /\ FiredRecently(pair[1], pair[2]))

\* C17: a matching rule is suppressed for an agent exactly when that rule
\* fired for that agent within the last 60 seconds: a firing of another rule
\* or for another agent never suppresses it, and it fires again once 60
\* seconds have passed.
C17_CooldownPerRuleAndAgent ==
    \A event \in Events : \A i \in 1..Len(rules) :
        (check_boundaries(event) = <<>> /\ i \in WouldMatch(event)) =>
            (Suppressed(i, event) <=> FiredRecently(rules[i].name, event.agent_id))

\* the rules process has to execute for an event: enabled, conditions
\* matching, cooldown key not in cooldown
Due(event) ==
    {i \in WouldMatch(event) :
        ~_is_cooled_down(cooldowns, rules[i].name, event.agent_id, time)}

\* C18: for an envelope that violates no boundary, process executes every
\* enabled rule whose conditions match and that is not in cooldown, each
\* once with its own action, in the configured order, and nothing else: a
\* rule earlier in the list never keeps a later one from being executed.
C18_AllDueRulesInOrder ==
    \A event \in Events :
        check_boundaries(event) = <<>> =>
            LET results == process(rules, cooldowns, rules_log, event, time).results
            IN /\ Len(results) = Cardinality(Due(event))
               /\ \A i \in Due(event) :
                      \E j \in 1..Len(results) :
                          /\ results[j] = [rule |-> rules[i].name, action |-> rules[i].then]
                          /\ j = Cardinality({k \in Due(event) : k <= i})

\* C18 witness: one process call has executed both rules, the first in the
\* list first.
C18_Witness ==
    /\ check_boundaries(rule_op.event) = <<>>
    /\ Len(rule_op.results) = 2
    /\ rule_op.results[1] = [rule |-> rules[1].name, action |-> rules[1].then]
    /\ rule_op.results[2] = [rule |-> rules[2].name, action |-> rules[2].then]

(***************************************************************************)
(* Inbox read tracking (inbox.py).                                         *)
(***************************************************************************)
ReadNonceCap == 2       \* stands for the 10000 of _save_read_nonce, scaled down
MaxInbox == 2           \* inbox.jsonl holds at most this many envelopes
MaxMarked == 3          \* mark_read is called at most this many times

Nonces == {"n1", "n2", "n3", "n4"}

_read_nonces == read_nonces

\* what list(nonces)[-cap:] can keep: a Python set lists its members in
\* hash order, which differs from run to run, so any cap of them
LastOfSet(nonces, cap) ==
    IF Cardinality(nonces) > cap
    THEN {kept \in SUBSET nonces : Cardinality(kept) = cap}
    ELSE {nonces}

\* the sets _save_read_nonce can write to state.json
_save_read_nonce(old, nonce) == LastOfSet(old \cup {nonce}, ReadNonceCap)

\* the nonces of the envelopes read_inbox returns, in file order
read_inbox(entries, unread_only) ==
    SelectSeq(entries, LAMBDA env : ~(unread_only /\ env.nonce \in _read_nonces))

\* the inbox listener appends a received envelope to inbox.jsonl
Receive(nonce) ==
    /\ Len(inbox) < MaxInbox
    /\ inbox' = Append(inbox, [nonce |-> nonce, agent_id |-> "", pubkey |-> ""])
    /\ UNCHANGED <<race_vars, goal_vars, anchor_vars, keys_vars, presence_vars, heartbeat_vars, atlas_vars, now, read_nonces, marked,
                   rules_vars, outbox_vars, task_vars, contract_vars, accord_vars>>

mark_read(nonce) ==
    /\ Len(marked) < MaxMarked
    /\ read_nonces' \in _save_read_nonce(read_nonces, nonce)
    /\ marked' = Append(marked, nonce)
    /\ UNCHANGED <<race_vars, goal_vars, anchor_vars, keys_vars, presence_vars, heartbeat_vars, atlas_vars, now, inbox,
                   rules_vars, outbox_vars, task_vars, contract_vars, accord_vars>>

NextInbox ==
    \/ \E nonce \in Nonces : Receive(nonce)
    \/ \E nonce \in Nonces : mark_read(nonce)

\* the cap distinct nonces marked last
RECURSIVE MostRecentlyMarked(_, _)
MostRecentlyMarked(ms, found) ==
    IF ms = <<>> \/ Cardinality(found) = ReadNonceCap THEN found
    ELSE MostRecentlyMarked(SubSeq(ms, 1, Len(ms) - 1), found \cup {ms[Len(ms)]})

\* the nonces of a sequence of inbox entries
NoncesOf(entries) == {entries[i].nonce : i \in 1..Len(entries)}

\* the read-nonce set never holds more than the cap
ReadNoncesBounded == Cardinality(read_nonces) <= ReadNonceCap

\* C19: while a nonce is among the cap most recently marked ones,
\* read_inbox(unread_only=true) returns no envelope with that nonce; the
\* read-nonce set never holds more than the cap; trimming has discarded only
\* the nonces marked longest ago.
C19_RecentlyMarkedStayRead ==
    /\ Cardinality(read_nonces) <= ReadNonceCap
    /\ MostRecentlyMarked(marked, {}) \subseteq read_nonces
    /\ \A nonce \in MostRecentlyMarked(marked, {}) :
           nonce \notin NoncesOf(read_inbox(inbox, TRUE))

(***************************************************************************)
(* Known keys (inbox.py, transports/webhook.py): trust on first use.       *)
(***************************************************************************)
SignerIds == {"bcn_1", "bcn_2"}
PubkeyHex == {"aa11", "AA11", "bb22"}

\* bytes.fromhex: upper and lower case hex give the same bytes
fromhex(pubkey) == IF pubkey \in {"aa11", "AA11"} THEN "key_1" ELSE "key_2"

\* identity.agent_id_from_pubkey: "bcn_" + first 12 hex chars of SHA-256(key)
agent_id_from_pubkey(key) == IF key = "key_1" THEN "bcn_1" ELSE "bcn_2"

\* the v2 envelopes an agent can be sent; "" is a missing field
KeyEnvelopes == [nonce : {"n1"}, agent_id : SignerIds \cup {""}, pubkey : PubkeyHex \cup {""}]

\* (mutant) the key is learned although the agent already has one
_learn_key_from_envelope_overwriting(env, keys) ==
    IF /\ env.agent_id # "" /\ env.pubkey # ""
       /\ agent_id_from_pubkey(fromhex(env.pubkey)) = env.agent_id
    THEN Put(keys, env.agent_id, env.pubkey)
    ELSE keys

_learn_key_from_envelope(env, keys) ==
    IF /\ env.agent_id # "" /\ env.pubkey # "" /\ env.agent_id \notin DOMAIN keys
       /\ agent_id_from_pubkey(fromhex(env.pubkey)) = env.agent_id
    THEN Put(keys, env.agent_id, env.pubkey)
    ELSE keys

\* the keys read_inbox saves: it learns from every envelope of inbox.jsonl in turn
RECURSIVE LearnAll(_, _)
LearnAll(envelopes, keys) ==
    IF envelopes = <<>> THEN keys
    ELSE LearnAll(Tail(envelopes), _learn_key_from_envelope(Head(envelopes), keys))

\* read_inbox: load_known_keys, the loop over the entries, save_known_keys
ReadInbox ==
    /\ known_keys' = LearnAll(inbox, known_keys)
    /\ keys_op' = "read_inbox"
    /\ UNCHANGED <<race_vars, goal_vars, anchor_vars, now, inbox_vars, presence_vars, heartbeat_vars, atlas_vars,
                   rules_vars, outbox_vars, task_vars, contract_vars, accord_vars>>

\* the webhook server's POST /beacon/inbox with one envelope
do_POST(env) ==
    /\ Len(inbox) < MaxInbox
    /\ known_keys' = _learn_key_from_envelope(env, known_keys)
    /\ inbox' = Append(inbox, env)
    /\ keys_op' = "do_POST"
    /\ UNCHANGED <<race_vars, goal_vars, anchor_vars, now, read_nonces, marked, presence_vars, heartbeat_vars, atlas_vars,
                   rules_vars, outbox_vars, task_vars, contract_vars, accord_vars>>

\* trust_key: the operator sets a key by hand
trust_key(agent_id, pubkey_hex) ==
    /\ known_keys' = Put(known_keys, agent_id, pubkey_hex)
    /\ keys_op' = "trust_key"
    /\ UNCHANGED <<race_vars, goal_vars, anchor_vars, now, inbox_vars, presence_vars, heartbeat_vars, atlas_vars,
                   rules_vars, outbox_vars, task_vars, contract_vars, accord_vars>>

NextKeys ==
    \/ ReadInbox
    \/ \E env \in KeyEnvelopes : do_POST(env)
    \/ \E agent_id \in SignerIds, pubkey_hex \in PubkeyHex : trust_key(agent_id, pubkey_hex)

\* keys2 is keys with nothing removed or replaced, and every added mapping is
\* agent_id -> pubkey of one of the envelopes, whose pubkey derives the agent_id
LearnedOnFirstUse(keys, keys2, envelopes) ==
    /\ \A a \in DOMAIN keys : a \in DOMAIN keys2 /\ keys2[a] = keys[a]
    /\ \A a \in DOMAIN keys2 \ DOMAIN keys :
           \E i \in 1..Len(envelopes) :
               /\ envelopes[i].agent_id = a
               /\ envelopes[i].pubkey = keys2[a]
               /\ agent_id_from_pubkey(fromhex(envelopes[i].pubkey)) = a

\* C26: ingesting an envelope (one posted to the webhook, or the stored ones
\* on read_inbox) adds agent_id -> pubkey only for an agent that has no
\* mapping and whose embedded pubkey derives the agent_id; a mapping that
\* exists is neither replaced nor removed, whatever pubkey a later envelope
\* carries.
C26_TrustOnFirstUse ==
    /\ \A env \in KeyEnvelopes :
           LearnedOnFirstUse(known_keys, _learn_key_from_envelope(env, known_keys), <<env>>)
    /\ LearnedOnFirstUse(known_keys, LearnAll(inbox, known_keys), inbox)

\* C26 witness: an envelope was just posted whose pubkey derives its
\* agent_id, and the agent's mapping is still the different key it had.
C26_Witness ==
    /\ keys_op = "do_POST"
    /\ inbox # <<>>
    /\ LET env == inbox[Len(inbox)]
       IN /\ env.agent_id \in DOMAIN known_keys
          /\ env.pubkey # ""
          /\ agent_id_from_pubkey(fromhex(env.pubkey)) = env.agent_id
          /\ known_keys[env.agent_id] # env.pubkey

InitKeys ==
    /\ known_keys = EmptyMap
    /\ keys_op = "none"

(***************************************************************************)
(* Presence roster (presence.py).                                          *)
(***************************************************************************)
PulseTtl == 60          \* the configured presence.pulse_ttl_s

PulseSenders == {"", "bcn_1", "bcn_2"}

\* the ts a pulse can carry: the receiver's time, or one step behind or
\* ahead of it (the sender's clock)
PulseTimes == {time - TimeStep, time, time + TimeStep}

\* PresenceManager.process_pulse
process_pulse(r, envelope) ==
    IF envelope.agent_id = "" THEN r
    ELSE Put(r, envelope.agent_id, [last_pulse |-> envelope.ts])

ProcessPulse(envelope) ==
    /\ roster' = process_pulse(roster, envelope)
    /\ UNCHANGED <<race_vars, goal_vars, anchor_vars, now, keys_vars, heartbeat_vars, atlas_vars, inbox_vars,
                   rules_vars, outbox_vars, task_vars, contract_vars, accord_vars>>

\* (mutant) an agent whose pulse is exactly ttl old is offline
roster_entries_strict(r, online_only, t) ==
    LET all == {[agent_id |-> a, last_pulse |-> r[a].last_pulse,
                 online |-> (t - r[a].last_pulse) < PulseTtl] : a \in DOMAIN r}
    IN IF online_only THEN {entry \in all : entry.online} ELSE all

\* PresenceManager.roster: the entries it returns (it returns them ordered
\* by last_pulse, newest first)
roster_entries(r, online_only, t) ==
    LET all == {[agent_id |-> a, last_pulse |-> r[a].last_pulse,
                 online |-> (t - r[a].last_pulse) <= PulseTtl] : a \in DOMAIN r}
    IN IF online_only THEN {entry \in all : entry.online} ELSE all

NextPresence ==
    \/ Wait
    \/ \E agent_id \in PulseSenders, ts \in PulseTimes :
           ProcessPulse([agent_id |-> agent_id, ts |-> ts])

\* C27: at every roster query, an agent of the roster is in the online
\* subset exactly when now - last_pulse <= ttl for its stored entry, and the
\* online flag of the full roster says the same.
C27_OnlineIffWithinTtl ==
    \A a \in DOMAIN roster :
        /\ (\E entry \in roster_entries(roster, TRUE, time) : entry.agent_id = a)
               <=> (time - roster[a].last_pulse <= PulseTtl)
        /\ \A entry \in roster_entries(roster, FALSE, time) :
               entry.agent_id = a =>
                   (entry.online <=> (time - roster[a].last_pulse <= PulseTtl))
        /\ \E entry \in roster_entries(roster, FALSE, time) : entry.agent_id = a

\* C27 witness: a roster query that returns one agent whose pulse is exactly
\* ttl old and leaves out another whose pulse is older.
C27_Witness ==
    /\ \E a \in DOMAIN roster :
           /\ time - roster[a].last_pulse = PulseTtl
           /\ \E entry \in roster_entries(roster, TRUE, time) : entry.agent_id = a
    /\ \E a \in DOMAIN roster :
           /\ time - roster[a].last_pulse > PulseTtl
           /\ \A entry \in roster_entries(roster, TRUE, time) : entry.agent_id # a

(***************************************************************************)
(* Heartbeats (heartbeat.py).  HeartbeatManager keeps nothing in memory:   *)
(* build_heartbeat and process_heartbeat each load heartbeats.json, change *)
(* their part of the state and write the whole state back.  The emitter    *)
(* and the listener run side by side, so a call of one can fall between    *)
(* the load and the save of the other.                                     *)
(***************************************************************************)
MaxBeats == 3           \* build_heartbeat is called at most this many times
MaxHeartbeatLog == 2    \* heartbeat_log.jsonl holds at most this many entries

PeerIds == {"", "bcn_p"}
PeerBeatCounts == {1, 7}

\* state["own"].get("beat_count", 0)
own_beat_count(state) ==
    IF "beat_count" \in DOMAIN state.own THEN state.own.beat_count ELSE 0

\* build_heartbeat up to _load_state
BuildLoad ==
    /\ hb_build.pc = "idle"
    /\ Len(emitted) < MaxBeats
    /\ hb_build' = [pc |-> "loaded", state |-> heartbeats]
    /\ UNCHANGED <<race_vars, goal_vars, anchor_vars, now, heartbeats, hb_proc, emitted, heartbeat_log,
                   keys_vars, presence_vars, atlas_vars, inbox_vars,
                   rules_vars, outbox_vars, task_vars, contract_vars, accord_vars>>

\* build_heartbeat from the beat_count to the return of the payload
BuildSave ==
    /\ hb_build.pc = "loaded"
    /\ LET beat_count == own_beat_count(hb_build.state) + 1
       IN /\ heartbeats' = [hb_build.state EXCEPT
                               !.own = [last_beat |-> now, beat_count |-> beat_count]]
          /\ emitted' = Append(emitted, beat_count)
    /\ hb_build' = [pc |-> "idle"]
    /\ UNCHANGED <<race_vars, goal_vars, anchor_vars, now, hb_proc, heartbeat_log,
                   keys_vars, presence_vars, atlas_vars, inbox_vars,
                   rules_vars, outbox_vars, task_vars, contract_vars, accord_vars>>

\* process_heartbeat up to _load_state; an envelope without agent_id is refused
ProcessLoad(envelope) ==
    /\ hb_proc.pc = "idle"
    /\ Len(heartbeat_log) < MaxHeartbeatLog
    /\ envelope.agent_id # ""
    /\ hb_proc' = [pc |-> "loaded", envelope |-> envelope, state |-> heartbeats]
    /\ UNCHANGED <<race_vars, goal_vars, anchor_vars, now, heartbeats, hb_build, emitted, heartbeat_log,
                   keys_vars, presence_vars, atlas_vars, inbox_vars,
                   rules_vars, outbox_vars, task_vars, contract_vars, accord_vars>>

\* process_heartbeat from the peer entry to the log append
ProcessSave ==
    /\ hb_proc.pc = "loaded"
    /\ LET agent_id == hb_proc.envelope.agent_id
           peers == hb_proc.state.peers
           prev_beat == IF agent_id \in DOMAIN peers THEN peers[agent_id].last_beat ELSE 0
           gap_s == IF prev_beat # 0 THEN now - prev_beat ELSE 0
           peer_entry == [last_beat |-> now,
                          beat_count |-> hb_proc.envelope.beat_count,
                          gap_s |-> gap_s]
       IN /\ heartbeats' = [hb_proc.state EXCEPT !.peers = Put(peers, agent_id, peer_entry)]
          /\ heartbeat_log' = Append(heartbeat_log,
                                     [agent_id |-> agent_id,
                                      beat_count |-> hb_proc.envelope.beat_count,
                                      gap_s |-> gap_s])
    /\ hb_proc' = [pc |-> "idle"]
    /\ UNCHANGED <<race_vars, goal_vars, anchor_vars, now, hb_build, emitted,
                   keys_vars, presence_vars, atlas_vars, inbox_vars,
                   rules_vars, outbox_vars, task_vars, contract_vars, accord_vars>>

\* process_heartbeat of an envelope without agent_id: {"error": "no_agent_id"}
ProcessRefuse(envelope) ==
    /\ hb_proc.pc = "idle"
    /\ envelope.agent_id = ""
    /\ UNCHANGED vars

NextHeartbeat ==
    \/ Tick
    \/ BuildLoad
    \/ BuildSave
    \/ \E agent_id \in PeerIds, beat_count \in PeerBeatCounts :
           ProcessLoad([agent_id |-> agent_id, beat_count |-> beat_count])
    \/ ProcessSave
    \/ \E agent_id \in PeerIds, beat_count \in PeerBeatCounts :
           ProcessRefuse([agent_id |-> agent_id, beat_count |-> beat_count])

\* C28: the heartbeats built carry the beat_counts 1, 2, 3, ... in order,
\* each one greater than the one before, and once a heartbeat is built the
\* stored own beat_count is the count of the last one, whatever peer
\* heartbeats are processed in between or alongside.
C28_OwnBeatCountMonotonic ==
    /\ \A i \in 1..Len(emitted) : emitted[i] = i
    /\ hb_build.pc = "idle" => own_beat_count(heartbeats) = Len(emitted)

\* what holds: a heartbeat built while no process_heartbeat call is in
\* progress counts one more than the stored own beat_count
BuildCountsStored ==
    [][(hb_build.pc = "loaded" /\ hb_build'.pc = "idle" /\ hb_build.state = heartbeats) =>
           emitted'[Len(emitted')] = own_beat_count(heartbeats) + 1]_vars

(***************************************************************************)
(* Atlas (atlas.py).  AtlasManager keeps atlas.json (cities, population    *)
(* statistics) and properties.json in memory and writes them back at the   *)
(* end of every operation that changes them.  A domain name is a sequence  *)
(* of characters, so that lower() and strip() are computed.                *)
(***************************************************************************)
AtlasAgents == {"bcn_1", "bcn_2", "bcn_3"}
DomainNames == {<<"a", "i">>, <<"A", "i", " ">>, <<"z">>}
DomainLists == {<<>>} \cup {<<d>> : d \in DomainNames} \cup {<<d, <<"z">>>> : d \in DomainNames}

FOUNDING_CITIES == [d \in {<<"a", "i">>} |-> [region |-> "Scholar Wastes", type |-> "metropolis"]]

POPULATION_THRESHOLDS ==
    << [t |-> "outpost", threshold |-> 1], [t |-> "village", threshold |-> 3],
       [t |-> "town", threshold |-> 10], [t |-> "city", threshold |-> 25],
       [t |-> "metropolis", threshold |-> 50], [t |-> "megalopolis", threshold |-> 100] >>

\* str.lower(), one character
lower_char(ch) == IF ch = "A" THEN "a" ELSE IF ch = "I" THEN "i" ELSE IF ch = "Z" THEN "z" ELSE ch

lower(s) == [i \in 1..Len(s) |-> lower_char(s[i])]

RECURSIVE strip(_)
strip(s) ==
    IF s = <<>> THEN s
    ELSE IF Head(s) = " " THEN strip(Tail(s))
    ELSE IF s[Len(s)] = " " THEN strip(SubSeq(s, 1, Len(s) - 1))
    ELSE s

RECURSIVE TypeFrom(_, _, _)
TypeFrom(thresholds, pop, city_type) ==
    IF thresholds = <<>> THEN city_type
    ELSE TypeFrom(Tail(thresholds), pop,
                  IF pop >= Head(thresholds).threshold THEN Head(thresholds).t ELSE city_type)

\* the thresholds are walked in ascending order; the last one reached wins
_city_type_for_population(pop) == TypeFrom(POPULATION_THRESHOLDS, pop, "outpost")

\* name and region of a generated city are left out: they are never read back
_generate_city_name(domain) ==
    LET domain_lower == strip(lower(domain))
    IN IF domain_lower \in DOMAIN FOUNDING_CITIES
       THEN FOUNDING_CITIES[domain_lower]
       ELSE [region |-> "generated", type |-> "outpost"]

\* ensure_city: the cities afterwards; the city returned is the one at domain_key
ensure_city(cs, domain) ==
    LET domain_key == strip(lower(domain))
        city_info == _generate_city_name(domain_key)
    IN IF domain_key \in DOMAIN cs THEN cs
       ELSE Put(cs, domain_key, [domain |-> domain_key, region |-> city_info.region,
                                 type |-> city_info.type, population |-> 0,
                                 residents |-> <<>>])

InSeq(x, s) == \E i \in 1..Len(s) : s[i] = x

\* list.remove(x): the first occurrence goes
RECURSIVE remove(_, _)
remove(s, x) ==
    IF s = <<>> THEN s
    ELSE IF Head(s) = x THEN Tail(s)
    ELSE <<Head(s)>> \o remove(Tail(s), x)

\* the loop body shared by register_agent (279-284) and unregister_agent
\* (312-317): the city is looked up under the name as stored in the property
leave_city(cs, domain, agent_id) ==
    IF domain \in DOMAIN cs /\ InSeq(agent_id, cs[domain].residents)
    THEN LET residents == remove(cs[domain].residents, agent_id)
         IN [cs EXCEPT ![domain] = [@ EXCEPT !.residents = residents,
                                             !.population = Len(residents),
                                             !.type = _city_type_for_population(Len(residents))]]
    ELSE cs

RECURSIVE leave_cities(_, _, _)
leave_cities(cs, domains, agent_id) ==
    IF domains = <<>> THEN cs
    ELSE leave_cities(leave_city(cs, Head(domains), agent_id), Tail(domains), agent_id)

\* the loop body of register_agent 287-292
join_city(cs, domain, agent_id) ==
    LET ensured == ensure_city(cs, domain)
        domain_key == strip(lower(domain))
    IN IF InSeq(agent_id, ensured[domain_key].residents) THEN ensured
       ELSE LET residents == Append(ensured[domain_key].residents, agent_id)
            IN [ensured EXCEPT ![domain_key] =
                    [@ EXCEPT !.residents = residents,
                              !.population = Len(residents),
                              !.type = _city_type_for_population(Len(residents))]]

RECURSIVE join_cities(_, _, _)
join_cities(cs, domains, agent_id) ==
    IF domains = <<>> THEN cs
    ELSE join_cities(join_city(cs, Head(domains), agent_id), Tail(domains), agent_id)

_update_population_stats(cs, props) ==
    [total_agents |-> Cardinality(DOMAIN props), total_cities |-> Cardinality(DOMAIN cs)]

register_agent(cs, props, agent_id, domains) ==
    LET primary_domain == IF domains # <<>> THEN domains[1] ELSE <<"g", "e", "n", "e", "r", "a", "l">>
        prop == [primary_city |-> primary_domain, cities |-> domains]
        left == IF agent_id \in DOMAIN props
                THEN leave_cities(cs, props[agent_id].cities, agent_id)
                ELSE cs
        joined == join_cities(left, domains, agent_id)
    IN [cities |-> joined, properties |-> Put(props, agent_id, prop)]

unregister_agent(cs, props, agent_id) ==
    IF agent_id \notin DOMAIN props THEN [cities |-> cs, properties |-> props, result |-> FALSE]
    ELSE [cities |-> leave_cities(cs, props[agent_id].cities, agent_id),
          properties |-> [a \in DOMAIN props \ {agent_id} |-> props[a]],
          result |-> TRUE]

EnsureCity(domain) ==
    /\ cities' = ensure_city(cities, domain)
    /\ UNCHANGED <<race_vars, goal_vars, anchor_vars, now, properties, population, keys_vars, presence_vars,
                   heartbeat_vars, inbox_vars, rules_vars, outbox_vars, task_vars,
                   contract_vars, accord_vars>>

RegisterAgent(agent_id, domains) ==
    /\ LET r == register_agent(cities, properties, agent_id, domains)
       IN /\ cities' = r.cities
          /\ properties' = r.properties
          /\ population' = _update_population_stats(r.cities, r.properties)
    /\ UNCHANGED <<race_vars, goal_vars, anchor_vars, now, keys_vars, presence_vars,
                   heartbeat_vars, inbox_vars, rules_vars, outbox_vars, task_vars,
                   contract_vars, accord_vars>>

UnregisterAgent(agent_id) ==
    /\ LET r == unregister_agent(cities, properties, agent_id)
       IN /\ cities' = r.cities
          /\ properties' = r.properties
          /\ population' = IF r.result THEN _update_population_stats(r.cities, r.properties)
                           ELSE population
    /\ UNCHANGED <<race_vars, goal_vars, anchor_vars, now, keys_vars, presence_vars,
                   heartbeat_vars, inbox_vars, rules_vars, outbox_vars, task_vars,
                   contract_vars, accord_vars>>

NextAtlas ==
    \/ \E domain \in DomainNames : EnsureCity(domain)
    \/ \E agent_id \in AtlasAgents, domains \in DomainLists : RegisterAgent(agent_id, domains)
    \/ \E agent_id \in AtlasAgents : UnregisterAgent(agent_id)

\* C29: in every state of the atlas, from the creation of a city on, the
\* type of each city is the type the population thresholds give for its
\* current population.
C29_TypeFollowsPopulation ==
    \A d \in DOMAIN cities :
        cities[d].type = _city_type_for_population(cities[d].population)

\* what holds: the population of a city is the number of its residents, and
\* the type is the threshold type once the residents have changed
PopulationCountsResidents ==
    \A d \in DOMAIN cities :
        /\ cities[d].population = Len(cities[d].residents)
        /\ cities[d].population > 0 =>
               cities[d].type = _city_type_for_population(cities[d].population)

\* the cities an agent is a resident of
ResidencesOf(cs, agent_id) ==
    {d \in DOMAIN cs : InSeq(agent_id, cs[d].residents)}

CitiesOf(domains) == {strip(lower(domains[i])) : i \in 1..Len(domains)}

\* C30: in every state the atlas can be in, after register_agent(agent,
\* domains) the agent is a resident of exactly the cities of the given
\* domains, named without regard to letter case and surrounding whitespace,
\* and after unregister_agent(agent) the agent is a resident of no city.
C30_ResidentOfGivenDomainsOnly ==
    \A agent_id \in AtlasAgents :
        /\ \A domains \in DomainLists :
               ResidencesOf(register_agent(cities, properties, agent_id, domains).cities,
                            agent_id) = CitiesOf(domains)
        /\ ResidencesOf(unregister_agent(cities, properties, agent_id).cities, agent_id) = {}

\* what holds: where every agent lives in just the cities its property
\* names, registering with domains in lower case without surrounding
\* whitespace, and unregistering, do what the claim says
Normalised(domains) == \A i \in 1..Len(domains) : strip(lower(domains[i])) = domains[i]

Accounted ==
    \A a \in AtlasAgents :
        ResidencesOf(cities, a) =
            IF a \in DOMAIN properties
            THEN {properties[a].cities[i] : i \in 1..Len(properties[a].cities)}
            ELSE {}

ResidentOfNormalisedDomains ==
    Accounted =>
        \A agent_id \in AtlasAgents :
            /\ \A domains \in DomainLists :
                   Normalised(domains) =>
                       ResidencesOf(register_agent(cities, properties, agent_id, domains).cities,
                                    agent_id) = CitiesOf(domains)
            /\ ResidencesOf(unregister_agent(cities, properties, agent_id).cities,
                            agent_id) = {}

(***************************************************************************)
(* Anchoring (anchor.py).  AnchorManager hashes the data, signs the        *)
(* commitment and hands it to the ledger client; every attempt is appended *)
(* to anchors.jsonl.  The ledger is an outside service: it takes a         *)
(* commitment it does not hold, answers "commitment_exists" for one it     *)
(* holds, and may fail for reasons of its own.  An error is the sequence   *)
(* of words of its text.                                                   *)
(***************************************************************************)
MaxAnchorLog == 3       \* anchors.jsonl holds at most this many entries

AnchorData == {"d1", "d2"}
LedgerFaults == { <<>>, <<"timeout">>, <<"http_500", "internal">> }

\* anchor.commitment_hash: SHA-256 of the data, taken to be collision-free
commitment_hash(data) == [sha256 |-> data]

\* the ledger client's anchor_submit: what it raises (<<>> if nothing), what
\* it returns, and the commitments the ledger holds afterwards
anchor_submit(led, commitment, fault) ==
    IF fault # <<>> THEN [raised |-> fault, result |-> [ok |-> FALSE], led |-> led]
    ELSE IF commitment \in led
    THEN [raised |-> <<"commitment_exists">>, result |-> [ok |-> FALSE], led |-> led]
    ELSE [raised |-> <<>>,
          result |-> [ok |-> TRUE, anchor_id |-> Cardinality(led) + 1],
          led |-> led \cup {commitment}]

\* "commitment_exists" in err_str
Mentions(err, word) == \E i \in 1..Len(err) : err[i] = word

\* (mutant) a duplicate is logged and raised like every other error
_submit_raising_duplicates(led, log, commitment, data_type, fault) ==
    LET sent == anchor_submit(led, commitment, fault)
        entry(status) == [commitment |-> commitment, data_type |-> data_type, status |-> status]
    IN IF sent.raised = <<>>
       THEN [led |-> sent.led, log |-> Append(log, entry("ok")),
             raised |-> <<>>, value |-> sent.result]
       ELSE [led |-> sent.led, log |-> Append(log, entry("error")),
             raised |-> sent.raised, value |-> [ok |-> FALSE]]

\* AnchorManager._submit (with a keypair to sign with)
_submit(led, log, commitment, data_type, fault) ==
    LET sent == anchor_submit(led, commitment, fault)
        entry(status) == [commitment |-> commitment, data_type |-> data_type, status |-> status]
    IN IF sent.raised = <<>>
       THEN [led |-> sent.led, log |-> Append(log, entry("ok")),
             raised |-> <<>>, value |-> sent.result]
       ELSE IF Mentions(sent.raised, "commitment_exists")
       THEN [led |-> sent.led, log |-> Append(log, entry("duplicate")),
             raised |-> <<>>,
             value |-> [ok |-> FALSE, error |-> "commitment_exists",
                        commitment |-> commitment]]
       ELSE [led |-> sent.led, log |-> Append(log, entry("error")),
             raised |-> sent.raised, value |-> [ok |-> FALSE]]

\* AnchorManager.anchor
anchor(led, log, data, data_type, fault) ==
    _submit(led, log, commitment_hash(data), data_type, fault)

Anchor(data, fault) ==
    /\ Len(anchors_jsonl) < MaxAnchorLog
    /\ LET r == anchor(ledger, anchors_jsonl, data, "test", fault)
       IN /\ ledger' = r.led
          /\ anchors_jsonl' = r.log
          /\ anchor_op' = [op |-> "anchor", data |-> data,
                           result |-> IF r.raised = <<>> THEN "returned" ELSE "raised",
                           raised |-> r.raised, value |-> r.value]
    /\ UNCHANGED <<now, race_vars, goal_vars, outbox_vars, keys_vars, presence_vars,
                   heartbeat_vars, atlas_vars, rules_vars, inbox_vars, task_vars,
                   contract_vars, accord_vars>>

\* another submitter anchors the data
AnchoredByOther(data) ==
    /\ commitment_hash(data) \notin ledger
    /\ ledger' = ledger \cup {commitment_hash(data)}
    /\ UNCHANGED <<now, anchors_jsonl, anchor_op, race_vars, goal_vars, outbox_vars,
                   keys_vars, presence_vars, heartbeat_vars, atlas_vars, rules_vars,
                   inbox_vars, task_vars, contract_vars, accord_vars>>

NextAnchor ==
    \/ \E data \in AnchorData, fault \in LedgerFaults : Anchor(data, fault)
    \/ \E data \in AnchorData : AnchoredByOther(data)

\* C31: in every reachable state, anchoring data whose commitment the ledger
\* holds raises nothing, returns ok false with error commitment_exists and
\* the commitment, and appends exactly one entry, of status duplicate, to
\* anchors.jsonl; and any other error of the submission is raised to the
\* caller as it is.
C31_DuplicateNotRaised ==
    \A data \in AnchorData, fault \in LedgerFaults :
        LET r == anchor(ledger, anchors_jsonl, data, "test", fault)
            sent == anchor_submit(ledger, commitment_hash(data), fault)
        IN /\ (fault = <<>> /\ commitment_hash(data) \in ledger) =>
                  /\ r.raised = <<>>
                  /\ r.value = [ok |-> FALSE, error |-> "commitment_exists",
                                commitment |-> commitment_hash(data)]
                  /\ Len(r.log) = Len(anchors_jsonl) + 1
                  /\ SubSeq(r.log, 1, Len(anchors_jsonl)) = anchors_jsonl
                  /\ r.log[Len(r.log)].status = "duplicate"
                  /\ r.log[Len(r.log)].commitment = commitment_hash(data)
                  /\ r.led = ledger
           /\ fault # <<>> => r.raised = fault
           /\ r.raised # <<>> => r.raised = sent.raised

\* the same data was anchored twice: anchors.jsonl holds an ok entry and
\* then a duplicate entry for its commitment, and the second call returned
C31_Witness ==
    /\ anchor_op.op = "anchor"
    /\ anchor_op.result = "returned"
    /\ anchor_op.value = [ok |-> FALSE, error |-> "commitment_exists",
                          commitment |-> commitment_hash(anchor_op.data)]
    /\ \E i, j \in 1..Len(anchors_jsonl) :
           /\ i < j /\ j = Len(anchors_jsonl)
           /\ anchors_jsonl[i] = [commitment |-> commitment_hash(anchor_op.data),
                                  data_type |-> "test", status |-> "ok"]
           /\ anchors_jsonl[j] = [commitment |-> commitment_hash(anchor_op.data),
                                  data_type |-> "test", status |-> "duplicate"]

(***************************************************************************)
(* Goals (goals.py).  GoalManager keeps the goals in memory and appends    *)
(* one event per operation to goals.jsonl; a new manager rebuilds the      *)
(* goals by replaying that file.  An optional number (value=None or a      *)
(* float) is a sequence of at most one number; a title is a sequence of    *)
(* characters.                                                             *)
(***************************************************************************)
MaxGoalEvents == 5      \* goals.jsonl holds at most this many events

GoalIds == {"g1", "g2"}
GoalTitles == { <<"t", " ">>, <<" ">> }
GoalValues == { <<>>, <<1>>, <<2>> }
GoalStates == {"dreaming", "active", "achieved", "abandoned"}

\* GoalManager._load, the loop over the lines of goals.jsonl from line i on
RECURSIVE Replay(_, _, _)
Replay(gs, log, i) ==
    IF i > Len(log) THEN gs
    ELSE LET evt == log[i]
             gid == evt.goal_id
             known == gid \in DOMAIN gs
         IN Replay(
              IF evt.action = "dream"
              THEN Put(gs, gid, [state |-> "dreaming", title |-> evt.title,
                                 current_value |-> <<0>>, created_at |-> evt.ts,
                                 updated_at |-> evt.ts, milestones |-> <<>>])
              ELSE IF evt.action = "activate" /\ known
              THEN Put(gs, gid, [gs[gid] EXCEPT !.state = "active", !.updated_at = evt.ts])
              ELSE IF evt.action = "progress" /\ known
              \* evt.get("value", current): the key is in every progress
              \* event, so the stored value is taken, None included
              THEN Put(gs, gid, [gs[gid] EXCEPT
                       !.current_value = IF "value" \in DOMAIN evt THEN evt.value ELSE @,
                       !.updated_at = evt.ts,
                       !.milestones = Append(@, [milestone |-> evt.milestone,
                                                 value |-> evt.value, ts |-> evt.ts])])
              ELSE IF evt.action = "achieve" /\ known
              THEN Put(gs, gid, [gs[gid] EXCEPT !.state = "achieved", !.updated_at = evt.ts])
              ELSE IF evt.action = "abandon" /\ known
              THEN Put(gs, gid, [gs[gid] EXCEPT !.state = "abandoned", !.updated_at = evt.ts])
              ELSE gs,
              log, i + 1)

\* GoalManager._load
GoalManager_load(log) == Replay(EmptyMap, log, 1)

\* GoalManager.dream; gid is the identifier _gen_id makes, new each time
dream(gs, log, gid, title, ts) ==
    IF strip(title) = <<>>
    THEN [goals |-> gs, log |-> log, result |-> "ValueError"]
    ELSE [goals |-> Put(gs, gid, [state |-> "dreaming", title |-> strip(title),
                                  current_value |-> <<0>>, created_at |-> ts,
                                  updated_at |-> ts, milestones |-> <<>>]),
          log |-> Append(log, [action |-> "dream", goal_id |-> gid,
                               title |-> strip(title), ts |-> ts]),
          result |-> gid]

\* (mutant) activate without the test of the goal's state
activate_from_any_state(gs, log, gid, ts) ==
    IF gid \notin DOMAIN gs
    THEN [goals |-> gs, log |-> log, result |-> FALSE]
    ELSE [goals |-> Put(gs, gid, [gs[gid] EXCEPT !.state = "active", !.updated_at = ts]),
          log |-> Append(log, [action |-> "activate", goal_id |-> gid, ts |-> ts]),
          result |-> TRUE]

\* GoalManager.activate
GoalManager_activate(gs, log, gid, ts) ==
    IF gid \notin DOMAIN gs \/ gs[gid].state # "dreaming"
    THEN [goals |-> gs, log |-> log, result |-> FALSE]
    ELSE [goals |-> Put(gs, gid, [gs[gid] EXCEPT !.state = "active", !.updated_at = ts]),
          log |-> Append(log, [action |-> "activate", goal_id |-> gid, ts |-> ts]),
          result |-> TRUE]

\* GoalManager.progress; the result is the goal, or the empty dictionary
progress(gs, log, gid, milestone, value, ts) ==
    IF gid \notin DOMAIN gs \/ gs[gid].state # "active"
    THEN [goals |-> gs, log |-> log, result |-> EmptyMap]
    ELSE LET goal == [gs[gid] EXCEPT
                         !.current_value = IF value # <<>> THEN value ELSE @,
                         !.updated_at = ts,
                         !.milestones = Append(@, [milestone |-> milestone,
                                                   value |-> value, ts |-> ts])]
         IN [goals |-> Put(gs, gid, goal),
             log |-> Append(log, [action |-> "progress", goal_id |-> gid,
                                  milestone |-> milestone, value |-> value, ts |-> ts]),
             result |-> goal]

\* GoalManager.achieve (no journal manager)
achieve(gs, log, gid, ts) ==
    IF gid \notin DOMAIN gs \/ gs[gid].state # "active"
    THEN [goals |-> gs, log |-> log, result |-> FALSE]
    ELSE [goals |-> Put(gs, gid, [gs[gid] EXCEPT !.state = "achieved", !.updated_at = ts]),
          log |-> Append(log, [action |-> "achieve", goal_id |-> gid, ts |-> ts]),
          result |-> TRUE]

\* GoalManager.abandon
abandon(gs, log, gid, ts) ==
    IF gid \notin DOMAIN gs \/ gs[gid].state \notin {"dreaming", "active"}
    THEN [goals |-> gs, log |-> log, result |-> FALSE]
    ELSE [goals |-> Put(gs, gid, [gs[gid] EXCEPT !.state = "abandoned", !.updated_at = ts]),
          log |-> Append(log, [action |-> "abandon", goal_id |-> gid, ts |-> ts]),
          result |-> TRUE]

GoalOps == {"activate", "progress", "achieve", "abandon"}

\* one of the four operations on an existing goal identifier
GoalCall(op, gs, log, gid, value, ts) ==
    CASE op = "activate" -> GoalManager_activate(gs, log, gid, ts)
      [] op = "progress" -> progress(gs, log, gid, "m", value, ts)
      [] op = "achieve" -> achieve(gs, log, gid, ts)
      [] op = "abandon" -> abandon(gs, log, gid, ts)

\* what the caller can tell from the result: progress returns {} on
\* failure, the other three return False
Failed(op, r) == IF op = "progress" THEN r.result = EmptyMap ELSE r.result = FALSE

GoalFrame ==
    UNCHANGED <<race_vars, anchor_vars, outbox_vars, keys_vars, presence_vars,
                heartbeat_vars, atlas_vars, rules_vars, inbox_vars, task_vars,
                contract_vars, accord_vars>>

Dream(title) ==
    /\ \E gid \in GoalIds \ DOMAIN goals :
         LET r == dream(goals, goals_jsonl, gid, title, now)
            IN /\ Len(r.log) <= MaxGoalEvents
               /\ goals' = r.goals
               /\ goals_jsonl' = r.log
               /\ goal_op' = [op |-> "dream", goal_id |-> gid,
                              result |-> IF r.result = gid THEN "ok" ELSE "raised"]
    /\ UNCHANGED now
    /\ GoalFrame

GoalOp(op, gid, value) ==
    /\ LET r == GoalCall(op, goals, goals_jsonl, gid, value, now)
       IN /\ Len(r.log) <= MaxGoalEvents
          /\ goals' = r.goals
          /\ goals_jsonl' = r.log
          /\ goal_op' = [op |-> op, goal_id |-> gid,
                         result |-> IF Failed(op, r) THEN "refused" ELSE "ok"]
    /\ UNCHANGED now
    /\ GoalFrame

NextGoals ==
    \/ Tick
    \/ \E title \in GoalTitles : Dream(title)
    \/ \E op \in GoalOps, gid \in GoalIds, value \in GoalValues : GoalOp(op, gid, value)

\* what C38 compares: the goals with their states, values and milestones
GoalView(gs) ==
    [gid \in DOMAIN gs |-> [state |-> gs[gid].state,
                            current_value |-> gs[gid].current_value,
                            milestones |-> gs[gid].milestones]]

\* C38: after any sequence of dream, activate, progress (with or without a
\* value), achieve and abandon, a manager loaded from goals.jsonl holds the
\* same goals with the same states, current values and milestones as the
\* manager that performed the operations.
C38_ReloadEqualsLive == GoalView(GoalManager_load(goals_jsonl)) = GoalView(goals)

\* what does hold: the two agree in everything when every progress so far
\* carried a value, and always in the states and the milestones
ReloadEqualsLiveWithValues ==
    LET loaded == GoalManager_load(goals_jsonl)
    IN /\ DOMAIN loaded = DOMAIN goals
       /\ \A gid \in DOMAIN goals :
              /\ loaded[gid].state = goals[gid].state
              /\ loaded[gid].milestones = goals[gid].milestones
              /\ loaded[gid].title = goals[gid].title
              /\ loaded[gid].updated_at = goals[gid].updated_at
       /\ (\A i \in 1..Len(goals_jsonl) :
              goals_jsonl[i].action = "progress" => goals_jsonl[i].value # <<>>)
          => loaded = goals

AllowedGoalMoves ==
    { <<"dreaming", "active">>, <<"active", "achieved">>,
      <<"dreaming", "abandoned">>, <<"active", "abandoned">> }

\* the states in which the operation is allowed
AllowedIn(op) ==
    CASE op = "activate" -> {"dreaming"}
      [] op = "progress" -> {"active"}
      [] op = "achieve" -> {"active"}
      [] op = "abandon" -> {"dreaming", "active"}

\* C39: in every reachable state, whatever operation is called on whatever
\* goal, each goal keeps its state or makes one of the moves dreaming ->
\* active, active -> achieved, dreaming -> abandoned, active -> abandoned
\* (so achieved and abandoned are never left), a new goal starts dreaming,
\* and an operation called on a goal whose state does not allow it reports
\* failure and leaves the goals and goals.jsonl as they were.
C39_GoalStateMachine ==
    /\ \A op \in GoalOps, gid \in GoalIds, value \in GoalValues :
         LET r == GoalCall(op, goals, goals_jsonl, gid, value, now)
         IN /\ DOMAIN r.goals = DOMAIN goals
            /\ \A g \in DOMAIN goals :
                   \/ r.goals[g].state = goals[g].state
                   \/ <<goals[g].state, r.goals[g].state>> \in AllowedGoalMoves
            /\ (gid \in DOMAIN goals /\ goals[gid].state \notin AllowedIn(op)) =>
                   /\ Failed(op, r)
                   /\ r.goals = goals
                   /\ r.log = goals_jsonl
    /\ \A title \in GoalTitles, gid \in GoalIds \ DOMAIN goals :
         LET r == dream(goals, goals_jsonl, gid, title, now)
         IN /\ \A g \in DOMAIN goals : r.goals[g] = goals[g]
            /\ gid \in DOMAIN r.goals => r.goals[gid].state = "dreaming"

\* an operation was refused on an achieved goal, which is still achieved,
\* while the other goal was abandoned
C39_Witness ==
    /\ goal_op.result = "refused"
    /\ goal_op.goal_id \in DOMAIN goals
    /\ goals[goal_op.goal_id].state = "achieved"
    /\ goal_op.op \in {"activate", "abandon"}
    /\ \E g \in DOMAIN goals : goals[g].state = "abandoned"

InitRace == ob_calls = [t \in Threads |-> [pc |-> "idle"]]

InitGoals ==
    /\ goals = EmptyMap
    /\ goals_jsonl = <<>>
    /\ goal_op = [op |-> "none", result |-> "none"]

InitAnchor ==
    /\ ledger = {}
    /\ anchors_jsonl = <<>>
    /\ anchor_op = [op |-> "none", result |-> "none"]

InitPresence ==
    /\ roster = EmptyMap

InitHeartbeat ==
    /\ heartbeats = [own |-> EmptyMap, peers |-> EmptyMap]
    /\ hb_build = [pc |-> "idle"]
    /\ hb_proc = [pc |-> "idle"]
    /\ emitted = <<>>
    /\ heartbeat_log = <<>>

InitAtlas ==
    /\ cities = EmptyMap
    /\ properties = EmptyMap
    /\ population = EmptyMap

InitInbox ==
    /\ inbox = <<>>
    /\ read_nonces = {}
    /\ marked = <<>>

InitTasks ==
    /\ tasks_log = <<>>
    /\ task_op = [op |-> "none", result |-> "none"]

InitContracts ==
    /\ contracts = EmptyMap
    /\ escrow = EmptyMap
    /\ contracts_json = EmptyMap
    /\ escrow_json = EmptyMap
    /\ contract_log = <<>>
    /\ contract_op = [op |-> "none", result |-> "none"]

InitAccords ==
    /\ accords = EmptyMap
    /\ accord_log = <<>>
    /\ accord_op = [op |-> "none", result |-> "none"]

Init ==
    /\ now = 0
    /\ InitOutbox
    /\ InitTasks
    /\ InitContracts
    /\ InitAccords
    /\ InitRules
    /\ InitInbox
    /\ InitKeys
    /\ InitPresence
    /\ InitHeartbeat
    /\ InitAtlas
    /\ InitRace
    /\ InitGoals
    /\ InitAnchor

SpecDrain == Init /\ [][NextDrain]_vars

\* Items are queued while the scheduler keeps calling drain: a drain that
\* has something to do is not put off forever.
NextDrainFair ==
    \/ Tick
    \/ \E id \in ActionIds, target \in Targets : Queue(id, target, "", "")
    \/ DrainSome

SpecDrainFair == Init /\ [][NextDrainFair]_vars /\ WF_vars(DrainSome)

\* one agent configuration, for the subsystems that never read it
InitOne == Init /\ cfg.udp_enabled

SpecOutbox == InitOne /\ [][NextOutbox]_vars

SpecRace == InitOne /\ [][NextRace]_vars

SpecTasks == InitOne /\ [][NextTasks]_vars

SpecContracts == InitOne /\ [][NextContracts]_vars

SpecLease == InitOne /\ [][NextLease]_vars

SpecAccords == InitOne /\ [][NextAccords]_vars

SpecRules == InitOne /\ [][NextRules]_vars

SpecInbox == InitOne /\ [][NextInbox]_vars

SpecKeys == InitOne /\ [][NextKeys]_vars

SpecPresence == InitOne /\ [][NextPresence]_vars

SpecHeartbeat == InitOne /\ [][NextHeartbeat]_vars

SpecAtlas == InitOne /\ [][NextAtlas]_vars

SpecAnchor == InitOne /\ [][NextAnchor]_vars

SpecGoals == InitOne /\ [][NextGoals]_vars

Next == NextDrain \/ NextOutbox \/ NextTasks \/ NextContracts \/ NextLease \/ NextAccords \/ NextRules \/ NextInbox \/ NextKeys \/ NextPresence \/ NextHeartbeat \/ NextAtlas \/ NextRace \/ NextGoals \/ NextAnchor

Spec == Init /\ [][Next]_vars

====
